-------------------------- MODULE CertStorageProofs --------------------------
(***************************************************************************)
(* The safety properties of CertStorage, for any number of processes and   *)
(* certificates.                                                           *)
(***************************************************************************)
EXTENDS CertStorage, FiniteSetTheorems, TLAPS

\* Only a holder of the lock has an operation under way.
OnlyHoldersWork == \A p \in Processes : doing[p] # "nothing" => p \in holders

CertificateFiles == {"cert.pem", "key.pem", "info.json"}
CertificateList  == <<"cert.pem", "key.pem", "info.json">>

\* What an operation has still to write is what is left of its list.
Progress(p) ==
  /\ doing[p] \in {"nothing", "deletion"} => todo[p] = <<>> /\ writing[p] = Absent
  /\ doing[p] \in {"certificate", "metadata"} => writing[p] \in Certificates
  /\ doing[p] = "certificate" =>
       todo[p] \in {CertificateList, <<"key.pem", "info.json">>, <<"info.json">>, <<>>}
  /\ doing[p] = "metadata" => todo[p] \in {<<"metadata.json">>, <<>>}

\* The lock file is created exclusively and, unless somebody unlocks twice, removed by its
\* holder alone, or by the one whose Unlock has failed.
OneHolder ==
  /\ \A p, q \in holders : p = q
  /\ \A p, q \in failed : p = q
  /\ holders # {} => lockFile
  /\ failed # {} => lockFile /\ holders = {}

\* Every file of the list that is not in it any more has been written.
Written(p) ==
  /\ doing[p] = "certificate" =>
       /\ todo[p] # CertificateList => file["cert.pem"] = writing[p]
       /\ todo[p] \in {<<"info.json">>, <<>>} => file["key.pem"] = writing[p]
       /\ todo[p] = <<>> => file["info.json"] = writing[p]
  /\ doing[p] = "metadata" /\ todo[p] = <<>> => file["metadata.json"] = writing[p]

\* What no operation is about and none has cut short is whole.
Whole ==
  /\ Settled("certificate") => \A f \in CertificateFiles : file[f] = committed
  /\ Settled("metadata") => file["metadata.json"] \in Certificates \cup {Absent}

Exclusive == OneHolder /\ (\A p \in Processes : Written(p)) /\ Whole

IInv ==
  /\ TypeOK
  /\ OnlyHoldersWork
  /\ \A p \in Processes : Progress(p)
  /\ ~twice => Exclusive

-----------------------------------------------------------------------------

\* The lists of files that an operation works off.
LEMMA Lists ==
  /\ {<<>>, <<"metadata.json">>, <<"info.json">>, <<"key.pem", "info.json">>,
      <<"cert.pem", "key.pem", "info.json">>} \subseteq Seq(Files)
  /\ Head(<<"cert.pem", "key.pem", "info.json">>) = "cert.pem"
  /\ Head(<<"key.pem", "info.json">>) = "key.pem"
  /\ Head(<<"info.json">>) = "info.json"
  /\ Head(<<"metadata.json">>) = "metadata.json"
  /\ Tail(<<"cert.pem", "key.pem", "info.json">>) = <<"key.pem", "info.json">>
  /\ Tail(<<"key.pem", "info.json">>) = <<"info.json">>
  /\ Tail(<<"info.json">>) = <<>>
  /\ Tail(<<"metadata.json">>) = <<>>
  /\ \A s \in Seq(Files) : s # <<>> => Head(s) \in Files /\ Tail(s) \in Seq(Files)
<1>1. /\ <<>> \in Seq(Files) /\ <<"metadata.json">> \in Seq(Files)
      /\ <<"info.json">> \in Seq(Files) /\ <<"key.pem", "info.json">> \in Seq(Files)
      /\ <<"cert.pem", "key.pem", "info.json">> \in Seq(Files)
  BY DEF Files
<1>2. /\ Head(<<"cert.pem", "key.pem", "info.json">>) = "cert.pem"
      /\ Head(<<"key.pem", "info.json">>) = "key.pem"
      /\ Head(<<"info.json">>) = "info.json"
      /\ Head(<<"metadata.json">>) = "metadata.json"
  OBVIOUS
<1>3. /\ Tail(<<"cert.pem", "key.pem", "info.json">>) = <<"key.pem", "info.json">>
      /\ Tail(<<"key.pem", "info.json">>) = <<"info.json">>
      /\ Tail(<<"info.json">>) = <<>>
      /\ Tail(<<"metadata.json">>) = <<>>
  OBVIOUS
<1>. QED  BY <1>1, <1>2, <1>3

LEMMA InitIInv == Init => IInv
<1>. SUFFICES ASSUME Init PROVE IInv
  OBVIOUS
<1>1. TypeOK
  BY Lists DEF Init, TypeOK, FileContents, Operations
<1>2. OneHolder /\ OnlyHoldersWork
  BY DEF Init, OneHolder, OnlyHoldersWork
<1>3. ASSUME NEW p \in Processes PROVE Progress(p) /\ Written(p)
  BY DEF Init, Progress, Written
<1>4. Whole
  BY DEF Init, Whole, CertificateFiles, Files
<1>. QED  BY <1>1, <1>2, <1>3, <1>4 DEF IInv, Exclusive

\* The actions on the lock leave files and operations alone.
LEMMA LockKeepsIInv ==
  ASSUME IInv,
         \/ \E p \in Processes :
              Lock(p) \/ LockFails(p) \/ Unlock(p) \/ UnlockRetry(p) \/ UnlockAgain(p)
         \/ Clean
  PROVE  IInv'
<1>. USE DEF Lock, LockFails, Unlock, UnlockRetry, UnlockAgain, RemoveLock, Clean, locks
<1>1. UNCHANGED <<file, proc, hist>>
  OBVIOUS
<1>2. TypeOK'
  <2>1. lockFile' \in BOOLEAN /\ twice' \in BOOLEAN
    BY DEF IInv, TypeOK
  <2>2. holders' \subseteq Processes /\ failed' \subseteq Processes /\ released' \subseteq Processes
    BY DEF IInv, TypeOK
  <2>3. \A p \in opened : p \in holders'
    BY DEF IInv, TypeOK, Progress
  <2>. QED  BY <1>1, <2>1, <2>2, <2>3 DEF IInv, TypeOK, proc, hist
<1>3. OnlyHoldersWork'
  BY <1>1 DEF IInv, OnlyHoldersWork, proc
<1>4. ASSUME NEW p \in Processes PROVE Progress(p)'
  BY <1>1 DEF IInv, Progress, proc
<1>5. ASSUME ~twice' PROVE Exclusive'
  <2>1. Exclusive
    BY <1>5 DEF IInv
  <2>2. OneHolder'
    BY <1>5, <2>1 DEF Exclusive, OneHolder
  <2>3. Whole' /\ \A p \in Processes : Written(p)'
    BY <1>1, <2>1 DEF Exclusive, Whole, Settled, Written, proc, hist
  <2>. QED  BY <2>2, <2>3 DEF Exclusive
<1>. QED  BY <1>2, <1>3, <1>4, <1>5 DEF IInv

\* An operation begins: from now on what it touches is not settled.
LEMMA BeginKeepsIInv ==
  ASSUME IInv, NEW p \in Processes,
         \/ DeleteCertificate(p)
         \/ \E c \in Certificates : StoreCertificate(p, c) \/ StoreMetadata(p, c)
  PROVE  IInv'
<1>. USE DEF IInv, TypeOK, Begins, locks
<1>1. PICK what \in {"certificate", "metadata", "deletion"}, c \in Certificates \cup {Absent},
           files \in {<<>>, <<"metadata.json">>, CertificateList} :
         /\ Begins(p, what, c, files)
         /\ what = "deletion" => c = Absent /\ files = <<>> /\ committed' = Absent
         /\ what # "deletion" => c \in Certificates /\ UNCHANGED committed
         /\ what = "certificate" => files = CertificateList
         /\ what = "metadata" => files = <<"metadata.json">>
  BY DEF DeleteCertificate, StoreCertificate, StoreMetadata, CertificateList
<1>2. files \in Seq(Files) /\ CertificateList # <<>> /\ <<"metadata.json">> # <<>>
  BY Lists DEF CertificateList
<1>3. TypeOK'
  <2>1. \A q \in opened : q # p
    BY <1>1 DEF Progress
  <2>. QED  BY <1>1, <1>2, <2>1 DEF disk, Operations
<1>4. OnlyHoldersWork'
  BY <1>1 DEF OnlyHoldersWork
<1>5. ASSUME NEW q \in Processes PROVE Progress(q)'
  <2>1. CASE q = p
    BY <1>1, <2>1 DEF Progress
  <2>2. CASE q # p
    BY <1>1, <2>2 DEF Progress
  <2>. QED  BY <2>1, <2>2
<1>6. ASSUME ~twice' PROVE Exclusive'
  <2>1. Exclusive /\ OneHolder'
    BY <1>1, <1>6 DEF Exclusive, OneHolder, disk
  <2>2. ASSUME NEW q \in Processes PROVE Written(q)'
    <3>1. CASE q = p
      BY <1>1, <1>2, <3>1, Lists DEF Written, CertificateList
    <3>2. CASE q # p
      BY <1>1, <2>1, <3>2 DEF Exclusive, Written, disk
    <3>. QED  BY <3>1, <3>2
  <2>3. doing'[p] = what /\ \A q \in Processes : q # p => doing'[q] = doing[q]
    BY <1>1
  <2>4. doing[p] = "nothing"
    BY <1>1
  <2>5. Settled("certificate")' => Settled("certificate") /\ UNCHANGED committed
    BY <1>1, <2>3, <2>4 DEF Settled, Touches
  <2>6. Settled("metadata")' => Settled("metadata")
    BY <1>1, <2>3, <2>4 DEF Settled, Touches
  <2>7. Whole'
    BY <1>1, <2>1, <2>5, <2>6 DEF Exclusive, Whole, disk
  <2>. QED  BY <2>1, <2>2, <2>7 DEF Exclusive
<1>. QED  BY <1>3, <1>4, <1>5, <1>6

\* An operation is under way: it touches files that are not settled.
LEMMA WorkKeepsIInv ==
  ASSUME IInv, NEW p \in Processes, Open(p) \/ Write(p) \/ Remove(p)
  PROVE  IInv'
<1>. USE DEF IInv
<1>. UNCHANGED <<lockFile, holders, failed, released, doing, writing, hist, twice>>
  BY DEF Open, Write, Remove, proc, locks
<1>1. doing[p] \in {"certificate", "metadata", "deletion"} /\ p \in holders
  <2>1. todo[p] # <<>> \/ doing[p] = "deletion"
    BY DEF Open, Write, Remove, TypeOK
  <2>. QED  BY <2>1 DEF Progress, TypeOK, Operations, OnlyHoldersWork
<1>2. doing[p] # "deletion" => todo[p] # <<>> /\ Head(todo[p]) \in Files
  BY <1>1 DEF Open, Write, Remove, TypeOK, Progress, Files
<1>3. TypeOK'
  <2>1. CASE Open(p)
    BY <1>1, <1>2, <2>1 DEF Open, TypeOK, FileContents, proc, hist
  <2>2. CASE Write(p)
    <3>1. \A q \in opened' : q # p /\ todo'[q] = todo[q]
      BY <2>2 DEF Write, TypeOK
    <3>2. Tail(todo[p]) \in Seq(Files)
      BY <2>2 DEF Write, TypeOK
    <3>. QED  BY <1>1, <2>2, <3>1, <3>2 DEF Write, TypeOK, FileContents, proc, hist
  <2>3. CASE Remove(p)
    BY <2>3 DEF Remove, TypeOK, FileContents, proc, hist
  <2>. QED  BY <2>1, <2>2, <2>3
<1>4. OnlyHoldersWork'
  BY DEF OnlyHoldersWork
<1>5. todo'[p] \in {todo[p], Tail(todo[p])} /\ \A q \in Processes : q # p => todo'[q] = todo[q]
  BY DEF Open, Write, Remove, TypeOK, proc
<1>6. ASSUME NEW q \in Processes PROVE Progress(q)'
  <2>1. CASE todo'[q] = todo[q]
    BY <2>1 DEF Progress
  <2>2. CASE Write(p) /\ q = p
    <3>1. doing[p] \in {"certificate", "metadata"}
      BY <1>1, <2>2 DEF Write, TypeOK, Progress
    <3>2. todo'[p] = Tail(todo[p]) /\ todo[p] # <<>>
      BY <2>2 DEF Write, TypeOK
    <3>. QED  BY <2>2, <3>1, <3>2, Lists DEF Progress, CertificateList
  <2>. QED  BY <1>5, <2>1, <2>2 DEF Open, Remove, proc
<1>7. ASSUME ~twice' PROVE Exclusive'
  <2>1. Exclusive /\ OneHolder'
    BY <1>7 DEF Exclusive, OneHolder
  <2>2. \A q \in Processes : q # p => doing[q] = "nothing"
    BY <1>1, <2>1 DEF Exclusive, OneHolder, OnlyHoldersWork
  <2>3. \A f \in Files : file'[f] # file[f] =>
          IF doing[p] = "deletion" THEN file'[f] = Absent
          ELSE todo[p] # <<>> /\ f = Head(todo[p])
    BY <1>1 DEF Open, Write, Remove, TypeOK, Progress
  <2>4. ASSUME NEW q \in Processes PROVE Written(q)'
    <3>1. CASE q # p
      BY <2>2, <3>1 DEF Written
    <3>2. CASE q = p /\ Open(p)
      BY <2>1, <2>3, <3>2, Lists DEF Exclusive, Written, Open, Progress, CertificateList, Files
    <3>3. CASE q = p /\ Write(p)
      <4>1. todo'[p] = Tail(todo[p]) /\ file'[Head(todo[p])] = writing[p]
        BY <1>1, <1>2, <3>3 DEF Write, TypeOK, Progress
      <4>2. Progress(p) /\ Written(p)
        BY <2>1 DEF Exclusive
      <4>3. CASE doing[p] = "certificate"
        <5>1. CASE todo[p] = CertificateList
          BY <2>3, <3>3, <4>1, <4>3, <5>1, Lists DEF Written, CertificateList, Files
        <5>2. CASE todo[p] = <<"key.pem", "info.json">>
          BY <2>3, <3>3, <4>1, <4>2, <4>3, <5>2, Lists DEF Written, CertificateList, Files
        <5>3. CASE todo[p] = <<"info.json">>
          BY <2>3, <3>3, <4>1, <4>2, <4>3, <5>3, Lists DEF Written, CertificateList, Files
        <5>. QED  BY <1>2, <4>2, <4>3, <5>1, <5>2, <5>3 DEF Progress
      <4>4. CASE doing[p] = "metadata"
        BY <1>2, <3>3, <4>1, <4>2, <4>4, Lists DEF Progress, Written
      <4>. QED  BY <3>3, <4>3, <4>4 DEF Written
    <3>4. CASE q = p /\ Remove(p)
      BY <3>4 DEF Written, Remove
    <3>. QED  BY <3>1, <3>2, <3>3, <3>4
  <2>5. Whole'
    <3>1. Settled("certificate")' => Settled("certificate") /\ doing[p] = "metadata"
      BY <1>1 DEF Settled, Touches, hist
    <3>2. doing[p] = "metadata" => \A f \in CertificateFiles : file'[f] = file[f]
      BY <1>2, <2>3, Lists DEF Progress, CertificateFiles, Files
    <3>3. Settled("metadata")' => Settled("metadata") /\ doing[p] = "certificate"
      BY <1>1 DEF Settled, Touches, hist
    <3>4. doing[p] = "certificate" => file'["metadata.json"] = file["metadata.json"]
      BY <1>2, <2>3, Lists DEF Progress, Files, CertificateList
    <3>. QED  BY <2>1, <3>1, <3>2, <3>3, <3>4 DEF Exclusive, Whole, hist
  <2>. QED  BY <2>1, <2>4, <2>5 DEF Exclusive
<1>. QED  BY <1>3, <1>4, <1>6, <1>7

\* An operation ends: with its result it has settled what it touched, without one that
\* is torn.
LEMMA EndKeepsIInv ==
  ASSUME IInv, NEW p \in Processes, Returns(p) \/ ReturnsError(p) \/ Crash(p)
  PROVE  IInv'
<1>. USE DEF IInv
<1>1. UNCHANGED <<disk, twice>>
  BY DEF Returns, ReturnsError, Crash
<1>2. /\ holders' \in {holders, holders \ {p}}
      /\ failed' \subseteq failed /\ released' \subseteq released
      /\ \A q \in Processes : q \in holders /\ q \notin holders' => doing'[q] = "nothing"
  BY DEF Returns, ReturnsError, Crash, Ends, TypeOK, proc, locks
<1>3. Ends(p) \/ UNCHANGED proc
  BY DEF Returns, ReturnsError, Crash
<1>4. ASSUME NEW q \in Processes
      PROVE  \/ doing'[q] = doing[q] /\ todo'[q] = todo[q] /\ writing'[q] = writing[q]
             \/ doing'[q] = "nothing" /\ todo'[q] = <<>> /\ writing'[q] = Absent
  BY <1>3 DEF Ends, TypeOK, proc
<1>5. TypeOK'
  <2>1. /\ doing' \in [Processes -> Operations]
        /\ writing' \in [Processes -> Certificates \cup {Absent}]
        /\ todo' \in [Processes -> Seq(Files)]
    <3>1. CASE Ends(p)
      BY <3>1, Lists DEF Ends, TypeOK, Operations
    <3>2. CASE UNCHANGED proc
      BY <3>2 DEF TypeOK, proc
    <3>. QED  BY <1>3, <3>1, <3>2
  <2>2. opened' \subseteq {q \in holders' : todo'[q] # <<>>}
    <3>1. CASE Ends(p)
      BY <1>2, <3>1 DEF Ends, TypeOK
    <3>2. CASE UNCHANGED proc /\ UNCHANGED holders
      BY <3>2 DEF TypeOK, proc
    <3>3. CASE UNCHANGED proc /\ Crash(p) /\ doing[p] = "nothing"
      BY <3>3 DEF TypeOK, proc, Crash, Progress
    <3>. QED  BY <3>1, <3>2, <3>3 DEF Returns, ReturnsError, Crash, Ends
  <2>3. committed' \in Certificates \cup {Absent}
    BY DEF Returns, ReturnsError, Crash, TypeOK
  <2>4. torn' \subseteq {"certificate", "metadata"}
    BY DEF Returns, ReturnsError, Crash, Ends, Touches, TypeOK, Operations
  <2>. QED  BY <1>1, <1>2, <2>1, <2>2, <2>3, <2>4 DEF TypeOK, disk
<1>6. OnlyHoldersWork'
  BY <1>2, <1>4 DEF OnlyHoldersWork
<1>7. ASSUME NEW q \in Processes PROVE Progress(q)'
  BY <1>1, <1>4 DEF Progress
<1>8. ASSUME ~twice' PROVE Exclusive'
  <2>1. Exclusive
    BY <1>1, <1>8
  <2>2. OneHolder'
    BY <1>1, <1>2, <2>1 DEF Exclusive, OneHolder, disk
  <2>3. ASSUME NEW q \in Processes PROVE Written(q)'
    BY <1>1, <1>4, <2>1 DEF Exclusive, Written, disk
  <2>4. ASSUME NEW what \in {"certificate", "metadata"}, Settled(what)', ~Settled(what)
        PROVE  Returns(p) /\ what \in Touches(doing[p])
    <3>1. CASE Ends(p)
      <4>1. ASSUME NEW q \in Processes, q # p PROVE doing'[q] = doing[q]
        BY <3>1, <4>1 DEF Ends, TypeOK
      <4>2. torn' = torn \cup Touches(doing[p]) => Settled(what)
        BY <2>4, <4>1 DEF Settled
      <4>3. torn' = torn \cup Touches(doing[p]) \/ Returns(p)
        BY <3>1 DEF ReturnsError, Crash, Ends
      <4>4. what \notin Touches(doing[p]) => Settled(what)
        BY <2>4, <4>1, <4>3 DEF Settled, Returns
      <4>. QED  BY <2>4, <4>2, <4>3, <4>4
    <3>2. CASE UNCHANGED <<proc, torn>>
      BY <2>4, <3>2 DEF Settled, proc
    <3>. QED  BY <3>1, <3>2 DEF Returns, ReturnsError, Crash
  <2>5. ASSUME Returns(p)
        PROVE  /\ doing[p] = "metadata" => UNCHANGED committed
               /\ "certificate" \in Touches(doing[p]) =>
                    \A f \in CertificateFiles : file[f] = committed'
               /\ "metadata" \in Touches(doing[p]) =>
                    file["metadata.json"] \in Certificates \cup {Absent}
    <3>1. /\ doing[p] \in {"certificate", "metadata", "deletion"} /\ todo[p] = <<>>
          /\ Progress(p) /\ Written(p) /\ CertificateList # <<>>
      BY <2>1, <2>5, Lists DEF Exclusive, Returns, Ends, TypeOK, Operations, CertificateList
    <3>2. CASE doing[p] = "certificate"
      BY <2>5, <3>1, <3>2 DEF Written, Returns, Touches, CertificateFiles
    <3>3. CASE doing[p] = "metadata"
      BY <2>5, <3>1, <3>3 DEF Progress, Written, Returns, Touches
    <3>4. CASE doing[p] = "deletion"
      BY <2>5, <3>1, <3>4 DEF Progress, Returns, Touches, CertificateFiles, Files
    <3>. QED  BY <3>1, <3>2, <3>3, <3>4
  <2>6. ASSUME Settled("certificate")' PROVE \A f \in CertificateFiles : file'[f] = committed'
    <3>1. CASE ~Settled("certificate")
      BY <1>1, <2>4, <2>5, <2>6, <3>1 DEF disk
    <3>2. CASE Settled("certificate")
      <4>1. "certificate" \notin Touches(doing[p])
        BY <3>2 DEF Settled
      <4>2. UNCHANGED committed
        BY <2>5, <4>1 DEF Returns, ReturnsError, Crash, Ends, Touches, TypeOK, Operations
      <4>. QED  BY <1>1, <2>1, <3>2, <4>2 DEF Exclusive, Whole, disk
    <3>. QED  BY <3>1, <3>2
  <2>7. ASSUME Settled("metadata")' PROVE file'["metadata.json"] \in Certificates \cup {Absent}
    BY <1>1, <2>1, <2>4, <2>5, <2>7 DEF Exclusive, Whole, disk
  <2>. QED  BY <2>2, <2>3, <2>6, <2>7 DEF Exclusive, Whole
<1>. QED  BY <1>5, <1>6, <1>7, <1>8

LEMMA NextIInv == IInv /\ [Next]_vars => IInv'
<1>. SUFFICES ASSUME IInv, [Next]_vars PROVE IInv'
  OBVIOUS
<1>1. CASE UNCHANGED vars
  <2>. USE DEF vars, disk, locks, proc, hist
  <2>1. TypeOK' /\ OnlyHoldersWork' /\ UNCHANGED twice
    BY <1>1 DEF IInv, TypeOK, OnlyHoldersWork
  <2>2. \A p \in Processes : Progress(p)' /\ (Written(p) => Written(p)')
    BY <1>1 DEF IInv, Progress, Written
  <2>3. (OneHolder => OneHolder') /\ (Whole => Whole')
    BY <1>1 DEF OneHolder, Whole, Settled
  <2>. QED  BY <2>1, <2>2, <2>3 DEF IInv, Exclusive
<1>2. CASE Next
  BY <1>2, LockKeepsIInv, BeginKeepsIInv, WorkKeepsIInv, EndKeepsIInv DEF Next, Works
<1>. QED  BY <1>1, <1>2

LEMMA Invariance == Spec => []IInv
BY InitIInv, NextIInv, PTL DEF Spec

-----------------------------------------------------------------------------

\* The variables keep their types.
THEOREM TypeCorrect == Spec => []TypeOK
<1>1. IInv => TypeOK
  BY DEF IInv
<1>. QED  BY <1>1, Invariance, PTL

\* However instances lock, fail, crash and are cleaned up after, at most one of them holds
\* the lock of a domain, and the lock file is there as long as one does, until the first
\* lock is unlocked again.
THEOREM LockIsExclusive == Spec => []LockExclusive
<1>1. IInv => LockExclusive
  <2>. SUFFICES ASSUME IInv, ~twice PROVE Cardinality(holders) <= 1 /\ (holders # {} => lockFile)
    BY DEF LockExclusive
  <2>. OneHolder
    BY DEF IInv, Exclusive
  <2>1. CASE holders = {}
    BY <2>1, FS_EmptySet
  <2>2. CASE \E p : holders = {p}
    <3>1. PICK p : holders = {p}
      BY <2>2
    <3>2. Cardinality(holders) = 1
      BY <3>1, FS_Singleton
    <3>. QED  BY <3>1, <3>2 DEF OneHolder
  <2>3. holders = {} \/ \E p : holders = {p}
    BY DEF OneHolder
  <2>. QED  BY <2>1, <2>2, <2>3
<1>. QED  BY <1>1, Invariance, PTL

\* Whatever instances store and delete, and wherever they crash or fail, the files of a
\* domain are those of the last operation, once one has completed after the last that was
\* cut short.
THEOREM StoredFilesAgree == Spec => []FilesAgree
<1>1. IInv => FilesAgree
  <2>. SUFFICES ASSUME IInv, ~twice PROVE FilesAgree
    BY DEF FilesAgree
  <2>1. committed \in Certificates \cup {Absent} /\ Absent \notin Certificates
    BY StorageAssumption DEF IInv, TypeOK
  <2>2. ASSUME Settled("certificate")
        PROVE  /\ file["cert.pem"] = committed
               /\ file["key.pem"] = committed
               /\ file["info.json"] = committed
    BY <2>2 DEF IInv, Exclusive, Whole, CertificateFiles
  <2>3. ASSUME Settled("metadata") PROVE LoadMetadata # "unreadable"
    BY <2>1, <2>3, StorageAssumption DEF IInv, Exclusive, Whole, LoadMetadata
  <2>. QED  BY <2>1, <2>2, <2>3 DEF FilesAgree, LoadCertificate, Listed
<1>. QED  BY <1>1, Invariance, PTL
=============================================================================
