----------------------------- MODULE TLSManager -----------------------------
(***************************************************************************)
(* internal/tls: the two managers behind the Manager interface, "simple"   *)
(* (simple.go, the one that is wired) and "certmagic" (manager.go), as     *)
(* CreateTLSManager selects them.  CertMagic itself is external: it orders *)
(* a certificate when a domain is added and has it at some later time.     *)
(*                                                                         *)
(* Domains, certificates and isStarted have a lock each; a handshake takes *)
(* them one after the other, so that domains and certificates come and go  *)
(* while it is under way.  stopChan is made once, with the manager.        *)
(***************************************************************************)
EXTENDS Naturals, FiniteSets

CONSTANTS
  Domains,
  Localhost,    \* the name that CertMagic's manager does not accept
  Connections   \* TLS connections whose handshakes run side by side

VARIABLES
  kind,          \* "simple" or "certmagic"
  domains,       \* m.domains
  certificates,  \* per domain: "none", "ordered" or "present"
  isStarted, stopClosed, panicked,
  loops,         \* number of running maintenance loops
  ctxDone,       \* the context that Start was given has ended
  toRenew,       \* what RenewCertificates has still to go through
  stage, name,   \* the handshakes and the server names they ask for
  starts,        \* history: number of times Start started something
  tried,         \* history: domains the last renewal has tried to renew
  kept,          \* history: domains managed all the time since it began
  offered,       \* history: domains added, or given a certificate, since removed
  fresh          \* history: handshakes whose domain was offered at some time in them

run     == <<isStarted, stopClosed, panicked, loops, ctxDone, starts>>
renewal == <<toRenew, tried, kept>>
shake   == <<stage, name>>
vars    == <<kind, domains, certificates, run, renewal, shake, offered, fresh>>

\* A manager starts at most twice: the second Stop panics and leaves it started.
TypeOK ==
  /\ kind \in {"simple", "certmagic"}
  /\ domains \subseteq Domains
  /\ certificates \in [Domains -> {"none", "ordered", "present"}]
  /\ isStarted \in BOOLEAN /\ stopClosed \in BOOLEAN /\ panicked \in BOOLEAN /\ ctxDone \in BOOLEAN
  /\ loops \in 0 .. starts /\ starts \in 0 .. 2
  /\ toRenew \subseteq Domains /\ tried \subseteq Domains /\ kept \subseteq Domains
  /\ stage \in [Connections -> {"idle", "hello", "checked", "served", "refused"}]
  /\ name \in [Connections -> Domains]
  /\ offered \subseteq Domains /\ fresh \subseteq Connections

\* CreateTLSManager, with NewSimpleTLSManager and NewCertMagicManager.
Init ==
  /\ kind \in {"simple", "certmagic"}
  /\ domains = {} /\ offered = {} /\ fresh = {}
  /\ certificates = [d \in Domains |-> "none"]
  /\ isStarted = FALSE /\ stopClosed = FALSE /\ panicked = FALSE /\ ctxDone = FALSE
  /\ loops = 0 /\ starts = 0
  /\ toRenew = {} /\ tried = {} /\ kept = {}
  /\ stage = [c \in Connections |-> "idle"]
  /\ name = [c \in Connections |-> Localhost]

-----------------------------------------------------------------------------
(* Domains and certificates                                                *)

\* History: d is offered from now on, to the handshakes under way as well.
Offers(d) ==
  /\ offered' = offered \cup {d}
  /\ fresh'   = fresh \cup {c \in Connections : stage[c] # "idle" /\ name[c] = d}

isValidDomain(d) == d # Localhost

\* CertMagic may refuse a domain (ManageAsync): an error, and no change.
AddDomain(d) ==
  /\ domains' = domains \cup {d}
  /\ IF kind = "simple"
     THEN UNCHANGED certificates
     ELSE /\ isValidDomain(d)
          /\ d \notin domains
          /\ certificates' = [certificates EXCEPT ![d] = IF @ = "none" THEN "ordered" ELSE @]
  /\ Offers(d)
  /\ UNCHANGED <<kind, run, renewal, shake>>

\* Mutation: the certificate of a removed domain stays.
RemoveDomainKeepingCertificate(d) ==
  /\ d \in domains \/ kind = "simple"
  /\ domains' = domains \ {d}
  /\ offered' = offered \ {d}
  /\ kept'    = kept \ {d}
  /\ UNCHANGED <<kind, certificates, run, toRenew, tried, shake, fresh>>

\* The simple manager deletes the certificate while it still holds the domains' lock:
\* no other method sees one map without the other.  CertMagic is not told.
RemoveDomain(d) ==
  /\ d \in domains \/ kind = "simple"
  /\ domains' = domains \ {d}
  /\ certificates' = IF kind = "simple" THEN [certificates EXCEPT ![d] = "none"] ELSE certificates
  /\ offered' = offered \ {d}
  /\ kept'    = kept \ {d}
  /\ UNCHANGED <<kind, run, toRenew, tried, shake, fresh>>

\* Of the simple manager.  The domain need not have been added.
SetCertificate(d) ==
  /\ kind = "simple"
  /\ certificates' = [certificates EXCEPT ![d] = "present"]
  /\ Offers(d)
  /\ UNCHANGED <<kind, domains, run, renewal, shake>>

\* CertMagic has obtained what it was asked for.
Obtained(d) ==
  /\ kind = "certmagic" /\ certificates[d] = "ordered"
  /\ certificates' = [certificates EXCEPT ![d] = "present"]
  /\ UNCHANGED <<kind, domains, run, renewal, shake, offered, fresh>>

-----------------------------------------------------------------------------
(* Handshakes: GetCertificate                                              *)

Hello(c, d) ==
  /\ stage[c] = "idle"
  /\ stage' = [stage EXCEPT ![c] = "hello"]
  /\ name'  = [name EXCEPT ![c] = d]
  /\ fresh' = IF d \in offered THEN fresh \cup {c} ELSE fresh \ {c}
  /\ UNCHANGED <<kind, domains, certificates, run, renewal, offered>>

\* Of CertMagic's manager: is the domain managed?  The lock is released again.
CheckManaged(c) ==
  /\ kind = "certmagic" /\ stage[c] = "hello"
  /\ stage' = [stage EXCEPT ![c] = IF name[c] \in domains THEN "checked" ELSE "refused"]
  /\ UNCHANGED <<kind, domains, certificates, run, renewal, name, offered, fresh>>

\* The certificate, or an error.
GetCertificate(c) ==
  /\ stage[c] = IF kind = "simple" THEN "hello" ELSE "checked"
  /\ stage' = [stage EXCEPT ![c] =
                 IF certificates[name[c]] = "present" THEN "served" ELSE "refused"]
  /\ UNCHANGED <<kind, domains, certificates, run, renewal, name, offered, fresh>>

Hangup(c) ==
  /\ stage[c] \in {"served", "refused"}
  /\ stage' = [stage EXCEPT ![c] = "idle"]
  /\ fresh' = fresh \ {c}
  /\ UNCHANGED <<kind, domains, certificates, run, renewal, name, offered>>

-----------------------------------------------------------------------------
(* Renewal, of CertMagic's manager                                         *)

\* The domains are copied under the lock and gone through without it.
RenewCertificates ==
  /\ kind = "certmagic" /\ toRenew = {} /\ domains # {}
  /\ toRenew' = domains /\ kept' = domains /\ tried' = {}
  /\ UNCHANGED <<kind, domains, certificates, run, shake, offered, fresh>>

\* Mutation: the first error ends the renewal.
RenewStopping(d) ==
  /\ d \in toRenew
  /\ toRenew' = {} /\ tried' = tried \cup {d}
  /\ UNCHANGED <<kind, domains, certificates, run, kept, shake, offered, fresh>>

\* Errors are collected.
Renew(d) ==
  /\ d \in toRenew
  /\ toRenew' = toRenew \ {d} /\ tried' = tried \cup {d}
  /\ UNCHANGED <<kind, domains, certificates, run, kept, shake, offered, fresh>>

-----------------------------------------------------------------------------
(* Start and Stop.  A Start of a started manager and a Stop of a stopped   *)
(* one return without an effect.                                           *)

Start ==
  /\ ~isStarted
  /\ isStarted' = TRUE
  /\ starts' = starts + 1
  /\ loops' = IF kind = "simple" THEN 0 ELSE loops + 1
  /\ UNCHANGED <<kind, domains, certificates, stopClosed, panicked, ctxDone, renewal, shake, offered, fresh>>

\* Mutation: the channel is closed whether or not the manager is started.
StopUnguarded ==
  /\ IF stopClosed THEN panicked' = TRUE /\ UNCHANGED <<isStarted, stopClosed>>
     ELSE stopClosed' = TRUE /\ isStarted' = FALSE /\ UNCHANGED panicked
  /\ UNCHANGED <<kind, domains, certificates, loops, ctxDone, starts, renewal, shake, offered, fresh>>

\* Mutation: isStarted is reset and the channel left open.
StopUnsignalled ==
  /\ isStarted
  /\ isStarted' = FALSE
  /\ UNCHANGED <<kind, domains, certificates, stopClosed, panicked, loops, ctxDone, starts, renewal, shake, offered, fresh>>

\* Closing the channel a second time panics before isStarted is reset; the deferred
\* Unlock lets the lock go.
Stop ==
  /\ isStarted
  /\ IF stopClosed THEN panicked' = TRUE /\ UNCHANGED <<isStarted, stopClosed>>
     ELSE stopClosed' = TRUE /\ isStarted' = FALSE /\ UNCHANGED panicked
  /\ UNCHANGED <<kind, domains, certificates, loops, ctxDone, starts, renewal, shake, offered, fresh>>

\* maintenanceLoop: the hourly check only writes to the log.
LoopEnds ==
  /\ loops > 0 /\ (stopClosed \/ ctxDone)
  /\ loops' = loops - 1
  /\ UNCHANGED <<kind, domains, certificates, isStarted, stopClosed, panicked, ctxDone, starts, renewal, shake, offered, fresh>>

ContextEnds ==
  /\ ~ctxDone /\ starts > 0
  /\ ctxDone' = TRUE
  /\ UNCHANGED <<kind, domains, certificates, isStarted, stopClosed, panicked, loops, starts, renewal, shake, offered, fresh>>

-----------------------------------------------------------------------------

Handshake(c) == CheckManaged(c) \/ GetCertificate(c) \/ Hangup(c)

Next ==
  \/ \E d \in Domains : AddDomain(d) \/ RemoveDomain(d) \/ SetCertificate(d) \/ Obtained(d) \/ Renew(d)
  \/ \E c \in Connections : Handshake(c) \/ \E d \in Domains : Hello(c, d)
  \/ RenewCertificates \/ Start \/ Stop \/ LoopEnds \/ ContextEnds

Spec == Init /\ [][Next]_vars

\* A goroutine whose select has a case to take is scheduled.
FairSpec == Spec /\ WF_vars(LoopEnds)

-----------------------------------------------------------------------------
(* Properties                                                              *)

\* "RemoveDomain removes a domain from automatic certificate management."
\* (interfaces.go l.23): a handshake that begins after a domain was removed, and ends
\* before it is offered again, gets no certificate.
NoCertificateAfterRemoval ==
  \A c \in Connections : stage[c] = "served" => c \in fresh

\* A renewal tries every domain that was managed all the time, whatever fails and
\* whatever is added and removed meanwhile.
RenewalReachesAll == toRenew = {} => kept \subseteq tried

\* Only a restarted manager closes its channel twice.
PanicNeedsRestart == panicked => starts = 2

\* "Signal maintenance loop to stop" (manager.go l.360).
StopEndsMaintenance == starts > 0 /\ ~isStarted ~> loops = 0
=============================================================================
