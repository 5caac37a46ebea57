---------------------------- MODULE CertStorage ----------------------------
(***************************************************************************)
(* internal/tls/storage.go: the files of one domain in a directory that    *)
(* several instances of the program share.  Instances write and delete     *)
(* certificates while they hold the storage's lock, a file that is created *)
(* exclusively, and load without it.  The mutex of a fileStorage lets one  *)
(* operation of its own process run at a time; it does not reach others.   *)
(*                                                                         *)
(* os.WriteFile truncates a file and then writes it, os.RemoveAll removes  *)
(* one file after the other: each of these is a step, each may fail, and a *)
(* process may crash between any two of them and be started again.         *)
(***************************************************************************)
EXTENDS Naturals, Sequences, FiniteSets

CONSTANTS Processes, Certificates

Files     == {"cert.pem", "key.pem", "info.json", "metadata.json"}
Absent    == "absent"
Truncated == "truncated"

\* A certificate is neither the lack of one nor a result of a reader.
ASSUME StorageAssumption ==
  Certificates \cap {Absent, Truncated, "not found", "unreadable"} = {}

VARIABLES
  file,       \* what each file holds
  lockFile,   \* does .locks/<key>.lock exist?
  holders,    \* processes with an open lock file (fl.file # nil)
  failed,     \* processes whose Unlock closed that file and could not remove it
  released,   \* processes with a lock that was unlocked
  doing,      \* the operation of each process
  writing,    \* the certificate (or its metadata) it writes
  todo,       \* the files it has still to write
  opened,     \* processes that have truncated the first of them
  committed,  \* history: what the last store left that no deletion followed
  torn,       \* history: what was cut short and not stored or deleted since
  twice       \* history: a lock was unlocked again

disk  == <<file, lockFile>>
locks == <<holders, failed, released>>
proc  == <<doing, writing, todo, opened>>
hist  == <<committed, torn>>
vars  == <<disk, locks, proc, hist, twice>>

Operations   == {"nothing", "certificate", "metadata", "deletion"}
FileContents == Certificates \cup {Absent, Truncated}

TypeOK ==
  /\ file      \in [Files -> FileContents]
  /\ lockFile  \in BOOLEAN
  /\ holders   \subseteq Processes /\ failed \subseteq Processes /\ released \subseteq Processes
  /\ doing     \in [Processes -> Operations]
  /\ writing   \in [Processes -> Certificates \cup {Absent}]
  /\ todo      \in [Processes -> Seq(Files)]
  /\ opened    \subseteq {p \in holders : todo[p] # <<>>}
  /\ committed \in Certificates \cup {Absent}
  /\ torn      \subseteq {"certificate", "metadata"}
  /\ twice     \in BOOLEAN

\* NewFileStorageImpl on an empty directory.
Init ==
  /\ file      = [f \in Files |-> Absent]
  /\ lockFile  = FALSE
  /\ holders   = {} /\ failed = {} /\ released = {}
  /\ doing     = [p \in Processes |-> "nothing"]
  /\ writing   = [p \in Processes |-> Absent]
  /\ todo      = [p \in Processes |-> <<>>]
  /\ opened    = {}
  /\ committed = Absent
  /\ torn      = {}
  /\ twice     = FALSE

-----------------------------------------------------------------------------
(* The lock                                                                *)

\* Mutation: the file is created or opened, without O_EXCL.
LockShared(p) ==
  /\ p \notin holders
  /\ lockFile' = TRUE
  /\ holders'  = holders \cup {p}
  /\ UNCHANGED <<file, failed, released, proc, hist, twice>>

\* An error, and no change, if the file exists.
Lock(p) ==
  /\ p \notin holders
  /\ ~lockFile
  /\ lockFile' = TRUE
  /\ holders'  = holders \cup {p}
  /\ UNCHANGED <<file, failed, released, proc, hist, twice>>

\* The timestamp cannot be written: the file is closed and, unless that fails too, removed.
LockFails(p) ==
  /\ p \notin holders
  /\ ~lockFile
  /\ lockFile' \in BOOLEAN
  /\ UNCHANGED <<file, locks, proc, hist, twice>>

\* os.Remove of the lock file, whoever created it: no error if there is none.
RemoveLock(p) ==
  \/ /\ lockFile' = FALSE
     /\ failed'   = failed \ {p}
     /\ released' = released \cup {p}
  \/ /\ lockFile /\ UNCHANGED <<lockFile, released>>
     /\ failed' = failed \cup {p}

\* The first Unlock of a lock, when its holder is done.
Unlock(p) ==
  /\ p \in holders
  /\ doing[p] = "nothing"
  /\ holders' = holders \ {p}
  /\ RemoveLock(p)
  /\ UNCHANGED <<file, proc, hist, twice>>

\* The next, after an error.
UnlockRetry(p) ==
  /\ p \in failed
  /\ RemoveLock(p)
  /\ UNCHANGED <<file, holders, proc, hist, twice>>

\* Another, of a lock that was unlocked: nothing in the lock tells that it was.
UnlockAgain(p) ==
  /\ p \in released
  /\ lockFile' \in {FALSE, lockFile}
  /\ twice' = TRUE
  /\ UNCHANGED <<file, locks, proc, hist>>

-----------------------------------------------------------------------------
(* Operations                                                              *)

Begins(p, what, c, files) ==
  /\ p \in holders
  /\ doing[p] = "nothing"
  /\ doing'   = [doing EXCEPT ![p] = what]
  /\ writing' = [writing EXCEPT ![p] = c]
  /\ todo'    = [todo EXCEPT ![p] = files]
  /\ UNCHANGED <<disk, locks, opened, torn, twice>>

\* Mutation: a failure leaves the file open.
EndsLeavingOpen(p) ==
  /\ doing[p] # "nothing"
  /\ doing'   = [doing EXCEPT ![p] = "nothing"]
  /\ writing' = [writing EXCEPT ![p] = Absent]
  /\ todo'    = [todo EXCEPT ![p] = <<>>]
  /\ UNCHANGED opened

\* The operation is over, be it with a result, with an error or by a crash.
Ends(p) ==
  /\ doing[p] # "nothing"
  /\ doing'   = [doing EXCEPT ![p] = "nothing"]
  /\ writing' = [writing EXCEPT ![p] = Absent]
  /\ todo'    = [todo EXCEPT ![p] = <<>>]
  /\ opened'  = opened \ {p}

\* Mutation: the private key is written only when there is none.
StoreCertificateKeepingKey(p, c) ==
  Begins(p, "certificate", c, IF file["key.pem"] = Absent
                              THEN <<"cert.pem", "key.pem", "info.json">>
                              ELSE <<"cert.pem", "info.json">>) /\ UNCHANGED committed

StoreCertificate(p, c) ==
  /\ Begins(p, "certificate", c, <<"cert.pem", "key.pem", "info.json">>)
  /\ UNCHANGED committed

StoreMetadata(p, c) ==
  /\ Begins(p, "metadata", c, <<"metadata.json">>)
  /\ UNCHANGED committed

DeleteCertificate(p) ==
  /\ Begins(p, "deletion", Absent, <<>>)
  /\ committed' = Absent

Open(p) ==
  /\ todo[p] # <<>>
  /\ p \notin opened
  /\ file'   = [file EXCEPT ![Head(todo[p])] = Truncated]
  /\ opened' = opened \cup {p}
  /\ UNCHANGED <<lockFile, locks, doing, writing, todo, hist, twice>>

Write(p) ==
  /\ p \in opened
  /\ file'   = [file EXCEPT ![Head(todo[p])] = writing[p]]
  /\ todo'   = [todo EXCEPT ![p] = Tail(@)]
  /\ opened' = opened \ {p}
  /\ UNCHANGED <<lockFile, locks, doing, writing, hist, twice>>

\* What an operation of a kind writes or removes.
Touches(what) == IF what = "deletion" THEN {"certificate", "metadata"} ELSE {what}

Remove(p) ==
  /\ doing[p] = "deletion"
  /\ \E f \in Files : file[f] # Absent /\ file' = [file EXCEPT ![f] = Absent]
  /\ UNCHANGED <<lockFile, locks, proc, hist, twice>>

Returns(p) ==
  /\ doing[p] = "deletion" => \A f \in Files : file[f] = Absent
  /\ todo[p] = <<>>
  /\ torn' = torn \ Touches(doing[p])
  /\ committed' = IF doing[p] = "metadata" THEN committed ELSE writing[p]
  /\ Ends(p)
  /\ UNCHANGED <<disk, locks, twice>>

\* A step of the file system fails: the operation returns its error and leaves the
\* files as they are.
ReturnsError(p) ==
  /\ Ends(p)
  /\ torn' = torn \cup Touches(doing[p])
  /\ UNCHANGED <<disk, locks, committed, twice>>

-----------------------------------------------------------------------------
(* Environment                                                             *)

\* A process dies and is started again.  Its lock file stays where it is.
Crash(p) ==
  /\ p \in holders \cup failed \cup released
  /\ holders'  = holders \ {p} /\ failed' = failed \ {p} /\ released' = released \ {p}
  /\ \/ doing[p] = "nothing" /\ UNCHANGED <<proc, torn>>
     \/ Ends(p) /\ torn' = torn \cup Touches(doing[p])
  /\ UNCHANGED <<disk, committed, twice>>

\* An operator removes a lock file that nobody holds, or is about to remove, any more.
Clean ==
  /\ lockFile
  /\ holders = {} /\ failed = {}
  /\ lockFile' = FALSE
  /\ UNCHANGED <<file, locks, proc, hist, twice>>

-----------------------------------------------------------------------------

Works(p) == Open(p) \/ Write(p) \/ Remove(p) \/ Returns(p)

Next ==
  \/ \E p \in Processes :
       \/ Lock(p) \/ LockFails(p) \/ Unlock(p) \/ UnlockRetry(p) \/ UnlockAgain(p)
       \/ DeleteCertificate(p) \/ Works(p) \/ ReturnsError(p) \/ Crash(p)
       \/ \E c \in Certificates : StoreCertificate(p, c) \/ StoreMetadata(p, c)
  \/ Clean

Spec == Init /\ [][Next]_vars

\* Operations go on.
FairSpec == Spec /\ \A p \in Processes : WF_vars(Works(p))

-----------------------------------------------------------------------------
(* Readers                                                                 *)

\* LoadCertificate reads info.json alone, which holds the certificate and its key.
LoadCertificate ==
  IF file["info.json"] \in Certificates THEN file["info.json"]
  ELSE IF file["info.json"] = Absent THEN "not found" ELSE "unreadable"

LoadMetadata ==
  IF file["metadata.json"] \in Certificates THEN file["metadata.json"]
  ELSE IF file["metadata.json"] = Absent THEN "not found" ELSE "unreadable"

\* ListCertificates lists a domain whose directory has an info.json.
Listed == file["info.json"] # Absent

-----------------------------------------------------------------------------
(* Properties                                                              *)

\* "Lock represents a distributed lock for coordinating certificate operations across
\* multiple application instances." (interfaces.go l.89): at most one instance holds it, and
\* the file is there while it does, whatever fails and crashes, as long as no lock is
\* unlocked again after it was, the way a deferred Unlock follows an explicit one.  (That
\* removes the file of whoever holds the lock by then, and the next instance gets it too.)
LockExclusive == ~twice => Cardinality(holders) <= 1 /\ (holders # {} => lockFile)

Settled(what) == what \notin torn /\ \A p \in Processes : what \notin Touches(doing[p])

\* The files of a domain belong together and are the last that were stored, by whatever
\* process and after whatever crashes and errors, unless the last change was cut short:
\* the next store or deletion that completes repairs what a crash left.  The same of its
\* metadata, which a deletion removes as well.  It takes an exclusive lock, and so none that
\* is unlocked again.
FilesAgree ==
  ~twice =>
    /\ Settled("certificate") =>
         /\ file["cert.pem"] = committed
         /\ file["key.pem"] = committed
         /\ LoadCertificate = IF committed = Absent THEN "not found" ELSE committed
         /\ Listed <=> committed # Absent
    /\ Settled("metadata") => LoadMetadata # "unreadable"
=============================================================================
