-------------------------- MODULE DurableRunProofs --------------------------
(***************************************************************************)
(* The safety of one durable run, and that it implements DecisionLog, for  *)
(* any outcomes, any number of transitions, capabilities and crashes.      *)
(***************************************************************************)
EXTENDS DurableRun, TLAPS

-----------------------------------------------------------------------------
(* What recovery reads of the journal: the newest record of the protocol, the  *)
(* newest start and the newest result.                                         *)
Protocol     == DOMAIN journal \ Of("RECOVERY_NOTE")
Starts       == Of("NODE_STARTED")
Results      == Of("NODE_RESULT_RECORDED")
NewestStart  == journal[Newest(Starts)]
NewestResult == journal[Newest(Results)]

HasNewest(ks) == \E k \in ks : \A j \in ks : j <= k

\* Files, process and history hold what their types say, and the journal has a
\* newest record of every kind that is asked for.
TypeInv ==
    /\ journal \in Seq(Records)
    /\ HasNewest(Protocol)
    /\ Starts # {} => HasNewest(Starts)
    /\ Results # {} => HasNewest(Results)
    /\ torn \in BOOLEAN /\ active \in BOOLEAN
    /\ disk \in Seq(Outcomes) /\ Len(disk) <= Last
    /\ effects \in [0 .. Last - 1 -> Nat]
    /\ pc \in {"ready", "started", "acted", "returned", "recorded", "swapped", "finalize",
              "receipt", "clear", "down", "assess", "reapply"}

\* The newest record of the protocol, whatever it is, fits state.json and the records
\* before it: this is what every assessment goes by.
JournalInv ==
    /\ LastRecord.type = "RUN_STARTED" => disk = <<>> /\ LastRecord.digest = disk
    /\ LastRecord.type = "NODE_STARTED" =>
          Starts # {} /\ NewestStart = LastRecord /\ LastRecord.base = Len(disk) /\ ~AtEnd(disk)
    /\ LastRecord.type = "NODE_RESULT_RECORDED" =>
          /\ Starts # {} /\ NewestStart.base = LastRecord.base
          /\ Results # {} /\ NewestResult = LastRecord
          /\ LastRecord.result \in Outcomes
          /\ \/ /\ LastRecord.base = Len(disk) /\ ~AtEnd(disk)
                /\ LastRecord.digest = Append(disk, LastRecord.result)
             \/ LastRecord.base + 1 = Len(disk) /\ LastRecord.digest = disk
    /\ LastRecord.type = "TRANSITION_COMMITTED" =>
          /\ LastRecord.digest = disk
          /\ Results # {} /\ NewestResult.digest = disk
    /\ LastRecord.type = "RUN_FINALIZED" =>
          /\ AtEnd(disk) /\ LastRecord.digest = disk
          /\ Of("RUN_FINALIZED") = {Len(journal)}
    /\ LastRecord.type # "RUN_FINALIZED" => Of("RUN_FINALIZED") = {}

\* What a living process knows of the files at each of its steps.
ProcessInv ==
    /\ pc = "ready" =>
          /\ ~torn
          /\ LastRecord.type \in {"RUN_STARTED", "NODE_STARTED", "TRANSITION_COMMITTED"}
          /\ ~AtEnd(disk)
          /\ LastRecord.type = "NODE_STARTED" => Kind[Len(disk)] # "write"
    /\ pc \in {"started", "acted", "returned"} =>
          LastRecord.type = "NODE_STARTED" /\ loaded = disk
    /\ pc \in {"returned", "recorded"} => outcome \in Outcomes
    /\ pc = "recorded" =>
          /\ LastRecord.type = "NODE_RESULT_RECORDED" /\ loaded = disk
          /\ LastRecord.base = Len(disk) /\ LastRecord.result = outcome
    /\ pc = "reapply" =>
          LastRecord.type = "NODE_RESULT_RECORDED" /\ LastRecord.base = Len(disk)
    /\ pc = "swapped" =>
          LastRecord.type = "NODE_RESULT_RECORDED" /\ LastRecord.digest = disk /\ Len(disk) > 0
    /\ pc = "finalize" =>
          AtEnd(disk) /\ LastRecord.type \in {"TRANSITION_COMMITTED", "RUN_FINALIZED"}
    /\ pc \in {"receipt", "clear"} => LastRecord.type = "RUN_FINALIZED"
    /\ pc = "clear" => receipt # NoReceipt
    /\ torn => pc \in {"down", "assess"} /\ LastRecord.type # "RUN_FINALIZED"

\* The receipt is of the newest record.
ReceiptInv ==
    /\ ~active => receipt # NoReceipt
    /\ receipt # NoReceipt =>
          LastRecord.type = "RUN_FINALIZED" /\ receipt = [digest |-> disk, seq |-> Len(journal)]

\* A side effect nobody reconciles has happened only where its start was the last
\* record of the protocol, or before.
EffectInv ==
    \A v \in 0 .. Last - 1 :
        /\ v > Len(disk) => effects[v] = 0
        /\ v = Len(disk) /\ LastRecord.type \in {"RUN_STARTED", "TRANSITION_COMMITTED"} =>
              effects[v] = 0
        /\ v = Len(disk) /\ LastRecord.type = "NODE_RESULT_RECORDED" /\ LastRecord.base # v =>
              effects[v] = 0
        /\ v = Len(disk) /\ pc = "started" /\ Kind[v] = "write" => effects[v] = 0
        /\ Kind[v] = "write" => effects[v] <= 1

IInv == TypeInv /\ JournalInv /\ ProcessInv /\ ReceiptInv /\ EffectInv

-----------------------------------------------------------------------------
(* Facts about the journal.                                                    *)
LEMMA NewestIs ==
    ASSUME NEW ks, ks \subseteq Int, NEW k \in ks, \A j \in ks : j <= k
    PROVE  Newest(ks) = k
<1>1. Newest(ks) \in ks /\ \A j \in ks : j <= Newest(ks)
  BY ZenonT(20) DEF Newest
<1>2. k <= Newest(ks) /\ Newest(ks) <= k /\ k \in Int /\ Newest(ks) \in Int
  BY <1>1
<1> QED BY <1>2

LEMMA NewestIn ==
    ASSUME NEW ks, ks \subseteq Int, HasNewest(ks)
    PROVE  Newest(ks) \in ks
BY DEF Newest, HasNewest

\* A run's results are a state as long as there are not too many.
LEMMA StateOf ==
    ASSUME NEW s \in Seq(Outcomes), Len(s) <= Last
    PROVE  s \in States
<1> USE LastAssumption
<1>1. Len(s) \in 0 .. Last /\ s \in [1 .. Len(s) -> Outcomes]
  OBVIOUS
<1> QED BY <1>1 DEF States

LEMMA RecordsMade ==
    ASSUME NEW s \in Seq(Outcomes), Len(s) <= Last
    PROVE  /\ NodeStarted(s) \in Records /\ Committed(s) \in Records /\ RunFinalized(s) \in Records
           /\ \A o \in Outcomes : Len(s) # Last => ResultRecorded(s, o) \in Records
<1> USE LastAssumption
<1>1. s \in States /\ Len(s) \in 0 .. Last
  BY StateOf
<1>2. ASSUME NEW o \in Outcomes, Len(s) # Last
      PROVE  Append(s, o) \in States
  <2>1. Append(s, o) \in Seq(Outcomes) /\ Len(Append(s, o)) <= Last
    BY <1>2
  <2> QED BY <2>1, StateOf
<1> QED BY <1>1, <1>2 DEF NodeStarted, Committed, RunFinalized, ResultRecorded, Record, Records, RecordTypes

\* An appended record of the protocol is the newest one, and the newest of its type.
LEMMA Appended ==
    ASSUME TypeInv, NEW r \in Records, r.type # "RECOVERY_NOTE", journal' = Append(journal, r)
    PROVE  /\ journal' \in Seq(Records) /\ Len(journal') = Len(journal) + 1
           /\ HasNewest(Protocol)' /\ (Starts # {} => HasNewest(Starts))'
           /\ (Results # {} => HasNewest(Results))'
           /\ LastRecord' = r
           /\ IF r.type = "NODE_STARTED" THEN Starts' # {} /\ NewestStart' = r
              ELSE Starts' = Starts /\ (Starts # {} => NewestStart' = NewestStart)
           /\ IF r.type = "NODE_RESULT_RECORDED" THEN Results' # {} /\ NewestResult' = r
              ELSE Results' = Results /\ (Results # {} => NewestResult' = NewestResult)
           /\ Of("RUN_FINALIZED")' = IF r.type = "RUN_FINALIZED"
                                       THEN Of("RUN_FINALIZED") \cup {Len(journal')}
                                       ELSE Of("RUN_FINALIZED")
<1> DEFINE n == Len(journal) + 1
<1>1. /\ journal \in Seq(Records) /\ journal' \in Seq(Records) /\ Len(journal') = n
      /\ DOMAIN journal = 1 .. n - 1 /\ DOMAIN journal' = 1 .. n /\ n \in Nat
      /\ journal'[n] = r /\ \A k \in 1 .. n - 1 : journal'[k] = journal[k]
  BY DEF TypeInv
<1>2. ASSUME NEW t
      PROVE  /\ Of(t) \subseteq 1 .. n - 1
             /\ Of(t)' = IF t = r.type THEN Of(t) \cup {n} ELSE Of(t)
  BY <1>1 DEF Of
<1>3. ASSUME NEW ks, ks \subseteq 1 .. n - 1
      PROVE  HasNewest(ks \cup {n}) /\ Newest(ks \cup {n}) = n
  <2>0. ks \subseteq Int /\ n \in Int
    BY <1>1, <1>3
  <2>1. \A j \in ks \cup {n} : j <= n
    BY <1>1, <1>3
  <2>2. ks \cup {n} \subseteq Int
    BY <2>0
  <2>3. Newest(ks \cup {n}) = n
    BY <2>1, <2>2, NewestIs
  <2> QED BY <2>1, <2>3 DEF HasNewest
<1>4. Protocol \subseteq 1 .. n - 1 /\ Protocol' = Protocol \cup {n}
  BY <1>1, <1>2 DEF Protocol
<1>5. HasNewest(Protocol)' /\ LastRecord' = r
  <2>1. HasNewest(Protocol') /\ Newest(Protocol') = n
    BY <1>3, <1>4
  <2> QED BY <2>1, <1>1 DEF LastRecord, Protocol, HasNewest, Newest
<1>6. /\ (Starts # {} => HasNewest(Starts))'
      /\ IF r.type = "NODE_STARTED" THEN Starts' # {} /\ NewestStart' = r
         ELSE Starts' = Starts /\ (Starts # {} => NewestStart' = NewestStart)
  <2>1. CASE r.type = "NODE_STARTED"
    <3>1. Starts' = Starts \cup {n} /\ Starts \subseteq 1 .. n - 1
      BY <2>1, <1>2 DEF Starts
    <3>2. HasNewest(Starts') /\ Newest(Starts') = n
      BY <3>1, <1>3
    <3> QED BY <2>1, <3>1, <3>2, <1>1 DEF NewestStart, HasNewest, Newest
  <2>2. CASE r.type # "NODE_STARTED"
    <3>1. Starts' = Starts /\ Starts \subseteq 1 .. n - 1 /\ Starts \subseteq Int
      BY <2>2, <1>1, <1>2 DEF Starts
    <3>2. Starts # {} => HasNewest(Starts) /\ Newest(Starts) \in Starts
      BY <3>1, NewestIn DEF TypeInv
    <3> QED BY <2>2, <3>1, <3>2, <1>1 DEF NewestStart, HasNewest, Newest
  <2> QED BY <2>1, <2>2
<1>7. /\ (Results # {} => HasNewest(Results))'
      /\ IF r.type = "NODE_RESULT_RECORDED" THEN Results' # {} /\ NewestResult' = r
         ELSE Results' = Results /\ (Results # {} => NewestResult' = NewestResult)
  <2>1. CASE r.type = "NODE_RESULT_RECORDED"
    <3>1. Results' = Results \cup {n} /\ Results \subseteq 1 .. n - 1
      BY <2>1, <1>2 DEF Results
    <3>2. HasNewest(Results') /\ Newest(Results') = n
      BY <3>1, <1>3
    <3> QED BY <2>1, <3>1, <3>2, <1>1 DEF NewestResult, HasNewest, Newest
  <2>2. CASE r.type # "NODE_RESULT_RECORDED"
    <3>1. Results' = Results /\ Results \subseteq 1 .. n - 1 /\ Results \subseteq Int
      BY <2>2, <1>1, <1>2 DEF Results
    <3>2. Results # {} => HasNewest(Results) /\ Newest(Results) \in Results
      BY <3>1, NewestIn DEF TypeInv
    <3> QED BY <2>2, <3>1, <3>2, <1>1 DEF NewestResult, HasNewest, Newest
  <2> QED BY <2>1, <2>2
<1> QED BY <1>1, <1>2, <1>5, <1>6, <1>7

\* A note changes nothing that recovery reads.
LEMMA Noted ==
    ASSUME TypeInv, journal' = Append(journal, RecoveryNote)
    PROVE  /\ journal' \in Seq(Records)
           /\ Protocol' = Protocol /\ Starts' = Starts /\ Results' = Results
           /\ Of("RUN_FINALIZED")' = Of("RUN_FINALIZED")
           /\ LastRecord' = LastRecord
           /\ Starts # {} => NewestStart' = NewestStart
           /\ Results # {} => NewestResult' = NewestResult
<1> DEFINE n == Len(journal) + 1
<1>0. RecoveryNote \in Records
  <2>0. <<>> \in Seq(Outcomes) /\ Len(<<>>) <= Last
    BY LastAssumption
  <2>1. <<>> \in States
    BY <2>0, StateOf
  <2> QED BY <2>1, LastAssumption DEF RecoveryNote, Record, Records, RecordTypes
<1>1. /\ journal \in Seq(Records) /\ journal' \in Seq(Records)
      /\ DOMAIN journal = 1 .. n - 1 /\ DOMAIN journal' = 1 .. n /\ n \in Nat
      /\ journal'[n] = RecoveryNote /\ \A k \in 1 .. n - 1 : journal'[k] = journal[k]
  BY <1>0 DEF TypeInv
<1>2. ASSUME NEW t
      PROVE  /\ Of(t) \subseteq 1 .. n - 1
             /\ Of(t)' = IF t = "RECOVERY_NOTE" THEN Of(t) \cup {n} ELSE Of(t)
  BY <1>1 DEF Of, RecoveryNote, Record
<1>3. /\ Protocol' = Protocol /\ Starts' = Starts /\ Results' = Results
      /\ Of("RUN_FINALIZED")' = Of("RUN_FINALIZED")
  BY <1>1, <1>2 DEF Protocol, Starts, Results
<1>4. /\ Protocol \subseteq 1 .. n - 1 /\ Starts \subseteq 1 .. n - 1 /\ Results \subseteq 1 .. n - 1
      /\ Protocol \subseteq Int /\ Starts \subseteq Int /\ Results \subseteq Int
  BY <1>1, <1>2 DEF Protocol, Starts, Results
<1>5. /\ Newest(Protocol) \in Protocol
      /\ Starts # {} => Newest(Starts) \in Starts
      /\ Results # {} => Newest(Results) \in Results
  BY <1>4, NewestIn DEF TypeInv
<1>6. LastRecord = journal[Newest(Protocol)] /\ LastRecord' = journal'[Newest(Protocol')]
  BY DEF LastRecord, Protocol, Newest
<1>7. NewestStart' = journal'[Newest(Starts')] /\ NewestResult' = journal'[Newest(Results')]
  BY DEF NewestStart, NewestResult, Newest
<1> QED BY <1>1, <1>3, <1>4, <1>5, <1>6, <1>7 DEF NewestStart, NewestResult

\* So does a step that leaves the journal alone.
LEMMA Unlogged ==
    ASSUME journal' = journal
    PROVE  /\ Protocol' = Protocol /\ Starts' = Starts /\ Results' = Results
           /\ Of("RUN_FINALIZED")' = Of("RUN_FINALIZED")
           /\ LastRecord' = LastRecord /\ NewestStart' = NewestStart /\ NewestResult' = NewestResult
BY DEF Protocol, Starts, Results, Of, LastRecord, NewestStart, NewestResult, Newest

-----------------------------------------------------------------------------
(* One lemma per group of actions.                                             *)
LEMMA InitInv == Init => IInv
<1> SUFFICES ASSUME Init PROVE IInv
  OBVIOUS
<1> USE LastAssumption, OutcomeAssumption
<1>0. <<>> \in Seq(Outcomes) /\ Len(<<>>) <= Last
  OBVIOUS
<1>1. RunStarted \in Records /\ RunStarted.type = "RUN_STARTED"
  <2>1. <<>> \in States
    BY <1>0, StateOf
  <2>2. 0 \in 0 .. Last
    OBVIOUS
  <2> QED BY <2>1, <2>2 DEF RunStarted, Record, Records, RecordTypes
<1>2. /\ journal \in Seq(Records) /\ DOMAIN journal = {1} /\ journal[1] = RunStarted
      /\ Protocol = {1} /\ Starts = {} /\ Results = {} /\ Of("RUN_FINALIZED") = {}
  BY <1>1 DEF Init, Protocol, Starts, Results, Of
<1>3. HasNewest(Protocol) /\ Newest(Protocol) = 1
  BY <1>2, NewestIs DEF HasNewest
<1>4. LastRecord = RunStarted
  BY <1>2, <1>3 DEF LastRecord, Protocol
<1>5. TypeInv
  BY <1>0, <1>2, <1>3 DEF TypeInv, Init
<1>6. JournalInv /\ ProcessInv /\ ReceiptInv /\ EffectInv
  BY <1>1, <1>2, <1>4 DEF Init, JournalInv, ProcessInv, ReceiptInv, EffectInv, AtEnd
<1> QED BY <1>5, <1>6 DEF IInv

LEMMA StepInv == ASSUME IInv, Step PROVE IInv'
<1> USE LastAssumption, OutcomeAssumption, KindAssumption
<1> USE DEF IInv, durable, volatile, counted, AtEnd
<1>0. TypeInv
  OBVIOUS
<1>1. CASE StartNode
  <2> DEFINE r == NodeStarted(disk)
  <2>1. r \in Records /\ r.type = "NODE_STARTED" /\ r.base = Len(disk) /\ r.digest = disk
    BY RecordsMade DEF TypeInv, NodeStarted, Record
  <2>2. journal' = Append(journal, r)
    BY <1>1 DEF StartNode, Logs
  <2> HIDE DEF r
  <2>3. /\ journal' \in Seq(Records) /\ HasNewest(Protocol)' /\ (Starts # {} => HasNewest(Starts))'
        /\ (Results # {} => HasNewest(Results))'
        /\ LastRecord' = r /\ Starts' # {} /\ NewestStart' = r
        /\ Of("RUN_FINALIZED")' = Of("RUN_FINALIZED")
    BY <2>1, <2>2, Appended
  <2>4. TypeInv'
    BY <1>1, <2>3 DEF TypeInv, StartNode, Logs
  <2>5. JournalInv'
    BY <1>1, <2>1, <2>3 DEF JournalInv, StartNode, ProcessInv
  <2>6. ProcessInv'
    BY <1>1, <2>1, <2>3 DEF StartNode, Logs, ProcessInv
  <2>7. ReceiptInv'
    BY <1>1 DEF ReceiptInv, StartNode, ProcessInv
  <2>8. EffectInv'
    BY <1>1, <2>1, <2>3 DEF EffectInv, StartNode, ProcessInv, TypeInv
  <2> QED BY <2>4, <2>5, <2>6, <2>7, <2>8
<1>2. CASE Act
  <2>1. journal' = journal
    BY <1>2 DEF Act
  <2>2. TypeInv'
    <3>1. Len(loaded) \in 0 .. Last - 1
      BY <1>2 DEF Act, ProcessInv, JournalInv, TypeInv
    <3>2. effects' \in [0 .. Last - 1 -> Nat]
      BY <1>2, <3>1 DEF Act, TypeInv
    <3> QED BY <1>2, <2>1, <3>2, Unlogged DEF TypeInv, Act, HasNewest
  <2>3. JournalInv' /\ ProcessInv' /\ ReceiptInv'
    BY <1>2, <2>1, Unlogged DEF JournalInv, ProcessInv, ReceiptInv, Act
  <2>4. EffectInv'
    BY <1>2, <2>1, Unlogged DEF EffectInv, ProcessInv, JournalInv, TypeInv, Act
  <2> QED BY <2>2, <2>3, <2>4
<1>3. CASE Return
  <2>1. journal' = journal
    BY <1>3 DEF Return
  <2>2. TypeInv'
    BY <1>3, <2>1, Unlogged DEF TypeInv, Return, HasNewest
  <2>3. JournalInv' /\ ProcessInv' /\ ReceiptInv'
    BY <1>3, <2>1, Unlogged DEF JournalInv, ProcessInv, ReceiptInv, Return
  <2>4. EffectInv'
    BY <1>3, <2>1, Unlogged DEF EffectInv, Return
  <2> QED BY <2>2, <2>3, <2>4
<1>4. CASE RecordResult
  <2> DEFINE r == ResultRecorded(disk, outcome)
  <2>1. /\ r \in Records /\ r.type = "NODE_RESULT_RECORDED" /\ r.base = Len(disk)
        /\ r.result = outcome /\ r.digest = Append(disk, outcome) /\ outcome \in Outcomes
        /\ loaded = disk
    BY <1>4, RecordsMade DEF TypeInv, ProcessInv, JournalInv, RecordResult, ResultRecorded, Record
  <2>2. journal' = Append(journal, r)
    BY <1>4, <2>1 DEF RecordResult, Logs
  <2> HIDE DEF r
  <2>3. /\ journal' \in Seq(Records) /\ HasNewest(Protocol)' /\ (Starts # {} => HasNewest(Starts))'
        /\ (Results # {} => HasNewest(Results))'
        /\ LastRecord' = r /\ Results' # {} /\ NewestResult' = r
        /\ Starts' = Starts /\ (Starts # {} => NewestStart' = NewestStart)
        /\ Of("RUN_FINALIZED")' = Of("RUN_FINALIZED")
    BY <2>1, <2>2, Appended
  <2>4. TypeInv'
    BY <1>4, <2>3 DEF TypeInv, RecordResult, Logs
  <2>5. JournalInv'
    BY <1>4, <2>1, <2>3 DEF JournalInv, RecordResult, ProcessInv
  <2>6. ProcessInv'
    BY <1>4, <2>1, <2>3 DEF RecordResult, Logs, ProcessInv
  <2>7. ReceiptInv'
    BY <1>4 DEF ReceiptInv, RecordResult, ProcessInv
  <2>8. EffectInv'
    BY <1>4, <2>1, <2>3 DEF EffectInv, RecordResult, ProcessInv, TypeInv
  <2> QED BY <2>4, <2>5, <2>6, <2>7, <2>8
<1>5. CASE Swap
  <2>1. journal' = journal
    BY <1>5 DEF Swap
  <2>2. /\ disk' = Append(disk, outcome) /\ pc' = "swapped" /\ outcome \in Outcomes
        /\ LastRecord.digest = Append(disk, outcome) /\ Len(disk) < Last
        /\ disk' \in Seq(Outcomes) /\ Len(disk') = Len(disk) + 1
    <3>1. disk \in Seq(Outcomes) /\ Len(disk) \in Nat /\ Len(disk) <= Last
      BY DEF TypeInv
    <3>2. /\ loaded = disk /\ outcome \in Outcomes /\ LastRecord.base = Len(disk)
          /\ LastRecord.type = "NODE_RESULT_RECORDED" /\ LastRecord.result = outcome
      BY <1>5 DEF Swap, ProcessInv
    <3>3. LastRecord.digest = Append(disk, outcome) /\ Len(disk) # Last
      BY <3>1, <3>2 DEF JournalInv
    <3>4. disk' = Append(disk, outcome) /\ pc' = "swapped"
      BY <1>5, <3>2 DEF Swap
    <3> QED BY <3>1, <3>2, <3>3, <3>4
  <2>3. TypeInv'
    BY <1>5, <2>1, <2>2, Unlogged DEF TypeInv, Swap, HasNewest
  <2>4. JournalInv' /\ ProcessInv' /\ ReceiptInv'
    BY <1>5, <2>1, <2>2, Unlogged DEF JournalInv, ProcessInv, ReceiptInv, TypeInv, Swap
  <2>5. EffectInv'
    BY <1>5, <2>1, <2>2, Unlogged DEF EffectInv, ProcessInv, TypeInv, Swap
  <2> QED BY <2>3, <2>4, <2>5
<1>6. CASE MarkCommitted
  <2> DEFINE r == Committed(disk)
  <2>1. r \in Records /\ r.type = "TRANSITION_COMMITTED" /\ r.digest = disk
    BY RecordsMade DEF TypeInv, Committed, Record
  <2>2. journal' = Append(journal, r)
    BY <1>6 DEF MarkCommitted, Logs
  <2> HIDE DEF r
  <2>3. /\ journal' \in Seq(Records) /\ HasNewest(Protocol)' /\ (Starts # {} => HasNewest(Starts))'
        /\ (Results # {} => HasNewest(Results))'
        /\ LastRecord' = r
        /\ Results' = Results /\ (Results # {} => NewestResult' = NewestResult)
        /\ Of("RUN_FINALIZED")' = Of("RUN_FINALIZED")
    BY <2>1, <2>2, Appended
  <2>4. TypeInv'
    BY <1>6, <2>3 DEF TypeInv, MarkCommitted, Logs
  <2>5. JournalInv'
    BY <1>6, <2>1, <2>3 DEF JournalInv, MarkCommitted, ProcessInv
  <2>6. ProcessInv'
    BY <1>6, <2>1, <2>3 DEF MarkCommitted, Logs, ProcessInv
  <2>7. ReceiptInv'
    BY <1>6 DEF ReceiptInv, MarkCommitted, ProcessInv
  <2>8. EffectInv'
    BY <1>6, <2>1, <2>3 DEF EffectInv, MarkCommitted, ProcessInv, JournalInv, TypeInv
  <2> QED BY <2>4, <2>5, <2>6, <2>7, <2>8
<1> QED BY <1>1, <1>2, <1>3, <1>4, <1>5, <1>6 DEF Step

LEMMA EndInv == ASSUME IInv, End PROVE IInv'
<1> USE LastAssumption, OutcomeAssumption, KindAssumption
<1> USE DEF IInv, durable, volatile, counted, AtEnd
<1>0. TypeInv
  OBVIOUS
<1>1. CASE Finalize /\ Of("RUN_FINALIZED") = {}
  <2> DEFINE r == RunFinalized(disk)
  <2>1. r \in Records /\ r.type = "RUN_FINALIZED" /\ r.digest = disk
    BY RecordsMade DEF TypeInv, RunFinalized, Record
  <2>2. journal' = Append(journal, r)
    BY <1>1 DEF Finalize, Logs
  <2> HIDE DEF r
  <2>3. /\ journal' \in Seq(Records) /\ HasNewest(Protocol)' /\ (Starts # {} => HasNewest(Starts))'
        /\ (Results # {} => HasNewest(Results))'
        /\ LastRecord' = r /\ Of("RUN_FINALIZED")' = Of("RUN_FINALIZED") \cup {Len(journal')}
    BY <2>1, <2>2, Appended
  <2>4. TypeInv'
    BY <1>1, <2>3 DEF TypeInv, Finalize, Logs
  <2>5. JournalInv'
    BY <1>1, <2>1, <2>3 DEF JournalInv, Finalize, ProcessInv
  <2>6. ProcessInv'
    BY <1>1, <2>1, <2>3 DEF Finalize, Logs, ProcessInv
  <2>7. ReceiptInv'
    BY <1>1 DEF ReceiptInv, Finalize, ProcessInv, JournalInv
  <2>8. EffectInv'
    BY <1>1, <2>1, <2>3 DEF EffectInv, Finalize
  <2> QED BY <2>4, <2>5, <2>6, <2>7, <2>8
<1>2. CASE Finalize /\ Of("RUN_FINALIZED") # {}
  <2>1. journal' = journal /\ LastRecord.type = "RUN_FINALIZED"
    BY <1>2 DEF Finalize, JournalInv
  <2>2. TypeInv'
    BY <1>2, <2>1, Unlogged DEF TypeInv, Finalize, HasNewest
  <2>3. JournalInv' /\ ProcessInv' /\ ReceiptInv' /\ EffectInv'
    BY <1>2, <2>1, Unlogged DEF JournalInv, ProcessInv, ReceiptInv, EffectInv, Finalize
  <2> QED BY <2>2, <2>3
<1>3. CASE WriteReceipt
  <2>1. journal' = journal
    BY <1>3 DEF WriteReceipt
  <2>2. TypeInv'
    BY <1>3, <2>1, Unlogged DEF TypeInv, WriteReceipt, HasNewest
  <2>3. JournalInv' /\ EffectInv'
    BY <1>3, <2>1, Unlogged DEF JournalInv, EffectInv, WriteReceipt
  <2>4. receipt' # NoReceipt
    <3>1. Len(journal) # 0
      BY DEF TypeInv, HasNewest, Protocol
    <3> QED BY <1>3, <3>1 DEF WriteReceipt, NoReceipt
  <2>5. ProcessInv' /\ ReceiptInv'
    BY <1>3, <2>1, <2>4, Unlogged DEF ProcessInv, ReceiptInv, WriteReceipt
  <2> QED BY <2>2, <2>3, <2>5
<1>4. CASE ClearActive
  <2>1. journal' = journal
    BY <1>4 DEF ClearActive
  <2>2. TypeInv'
    BY <1>4, <2>1, Unlogged DEF TypeInv, ClearActive, HasNewest
  <2>3. JournalInv' /\ ProcessInv' /\ ReceiptInv' /\ EffectInv'
    BY <1>4, <2>1, Unlogged DEF JournalInv, ProcessInv, ReceiptInv, EffectInv, ClearActive
  <2> QED BY <2>2, <2>3
<1> QED BY <1>1, <1>2, <1>3, <1>4 DEF End

LEMMA RecoverInv == ASSUME IInv, Recover PROVE IInv'
<1> USE LastAssumption, OutcomeAssumption, KindAssumption
<1> USE DEF IInv, durable, volatile, counted, AtEnd
<1>0. TypeInv
  OBVIOUS
<1>1. CASE OpenSession
  <2>1. journal' = journal
    BY <1>1 DEF OpenSession
  <2>2. TypeInv'
    BY <1>1, <2>1, Unlogged DEF TypeInv, OpenSession, HasNewest
  <2>3. JournalInv' /\ ProcessInv' /\ ReceiptInv' /\ EffectInv'
    BY <1>1, <2>1, Unlogged DEF JournalInv, ProcessInv, ReceiptInv, EffectInv, OpenSession
  <2> QED BY <2>2, <2>3
<1>2. CASE Assess
  <2>1. journal' = journal
    BY <1>2 DEF Assess
  <2>2. PICK reconciled \in BOOLEAN : pc' = AfterAssessment(Assessment(reconciled))
    BY <1>2 DEF Assess
  <2> DEFINE action == Assessment(reconciled)
  <2>3. /\ LastRecord.type \in RecordTypes \ {"RECOVERY_NOTE"}
        /\ LastRecord.base \in Nat /\ Len(disk) \in Nat
    <3>1. Protocol \subseteq DOMAIN journal /\ Protocol \subseteq Int
      BY DEF TypeInv, Protocol
    <3>2. Newest(Protocol) \in Protocol
      BY <3>1, NewestIn DEF TypeInv
    <3>3. LastRecord = journal[Newest(Protocol)] /\ Newest(Protocol) \in DOMAIN journal
      BY <3>1, <3>2 DEF LastRecord, Protocol
    <3>4. LastRecord \in Records
      BY <3>3 DEF TypeInv
    <3>5. LastRecord.type # "RECOVERY_NOTE"
      BY <3>2, <3>3 DEF Protocol, Of
    <3>6. Len(disk) \in Nat
      BY DEF TypeInv
    <3> QED BY <3>4, <3>5, <3>6 DEF Records
  <2>4. /\ action = "REAPPLY_RECORDED_RESULT" =>
             LastRecord.type = "NODE_RESULT_RECORDED" /\ LastRecord.base = Len(disk)
        /\ action = "COMPLETE_TRANSITION_MARKER" =>
             /\ LastRecord.type = "NODE_RESULT_RECORDED"
             /\ LastRecord.digest = disk /\ Len(disk) > 0
        /\ action = "CLEAN_RESUME" =>
             LastRecord.type \in {"RUN_STARTED", "TRANSITION_COMMITTED"} /\ ~AtEnd(disk)
        /\ action = "RERUN_INTERRUPTED_NODE" =>
             LastRecord.type = "NODE_STARTED" /\ ~AtEnd(disk) /\ Kind[Len(disk)] # "write"
        /\ action = "COMPLETED" =>
             AtEnd(disk) /\ LastRecord.type \in {"TRANSITION_COMMITTED", "RUN_FINALIZED"}
        /\ action \in {"REAPPLY_RECORDED_RESULT", "COMPLETE_TRANSITION_MARKER", "CLEAN_RESUME",
                       "RERUN_INTERRUPTED_NODE", "COMPLETED", "BLOCKED"}
    BY <2>3 DEF Assessment, AssessStarted, AssessRecorded, AssessCommitted, CleanOrCompleted,
                JournalInv, RecordTypes
  <2> HIDE DEF action
  <2>5. /\ pc' = "reapply" => action = "REAPPLY_RECORDED_RESULT"
        /\ pc' = "swapped" => action = "COMPLETE_TRANSITION_MARKER"
        /\ pc' = "ready" => action \in {"CLEAN_RESUME", "RERUN_INTERRUPTED_NODE"}
        /\ pc' = "finalize" => action = "COMPLETED"
        /\ pc' \in {"reapply", "swapped", "ready", "finalize", "down"}
    BY <2>2, <2>4 DEF AfterAssessment, action
  <2>6. TypeInv'
    BY <1>2, <2>1, <2>5, Unlogged DEF TypeInv, Assess, HasNewest
  <2>7. ProcessInv'
    BY <1>2, <2>1, <2>3, <2>4, <2>5, Unlogged DEF ProcessInv, JournalInv, Assess
  <2>8. JournalInv' /\ ReceiptInv' /\ EffectInv'
    BY <1>2, <2>1, <2>5, Unlogged DEF JournalInv, ReceiptInv, EffectInv, Assess
  <2> QED BY <2>6, <2>7, <2>8
<1>3. CASE Reapply
  <2>1. journal' = journal
    BY <1>3 DEF Reapply
  <2>2. /\ LastRecord.type = "NODE_RESULT_RECORDED" /\ LastRecord.base = Len(disk)
        /\ disk' = LastRecord.digest /\ pc' = "swapped" /\ Len(disk) < Last
        /\ disk' \in Seq(Outcomes) /\ Len(disk') = Len(disk) + 1
    <3>1. disk \in Seq(Outcomes) /\ Len(disk) \in Nat /\ Len(disk) <= Last
      BY DEF TypeInv
    <3>2. LastRecord.type = "NODE_RESULT_RECORDED" /\ LastRecord.base = Len(disk)
      BY <1>3 DEF Reapply, ProcessInv
    <3>3. /\ LastRecord.digest = Append(disk, LastRecord.result) /\ Len(disk) # Last
          /\ LastRecord.result \in Outcomes
      BY <3>1, <3>2 DEF JournalInv
    <3>4. disk' = Append(disk, LastRecord.result) /\ pc' = "swapped"
      BY <1>3 DEF Reapply
    <3> QED BY <3>1, <3>2, <3>3, <3>4
  <2>3. TypeInv'
    BY <1>3, <2>1, <2>2, Unlogged DEF TypeInv, Reapply, HasNewest
  <2>4. JournalInv' /\ ProcessInv' /\ ReceiptInv'
    BY <1>3, <2>1, <2>2, Unlogged DEF JournalInv, ProcessInv, ReceiptInv, TypeInv, Reapply
  <2>5. EffectInv'
    BY <1>3, <2>1, <2>2, Unlogged DEF EffectInv, ProcessInv, TypeInv, Reapply
  <2> QED BY <2>3, <2>4, <2>5
<1>4. CASE RepairTornTail
  <2>1. journal' = Append(journal, RecoveryNote)
    BY <1>4 DEF RepairTornTail
  <2>2. TypeInv'
    BY <1>4, <2>1, Noted DEF TypeInv, RepairTornTail, HasNewest
  <2>3. LastRecord.type # "RUN_FINALIZED"
    BY <1>4 DEF RepairTornTail, ProcessInv
  <2>4. JournalInv'
    BY <1>4, <2>1, <2>3, Noted DEF JournalInv, RepairTornTail
  <2>5. ProcessInv' /\ ReceiptInv' /\ EffectInv'
    BY <1>4, <2>1, <2>3, Noted DEF ProcessInv, ReceiptInv, EffectInv, RepairTornTail
  <2> QED BY <2>2, <2>4, <2>5
<1> QED BY <1>1, <1>2, <1>3, <1>4 DEF Recover

LEMMA DisturbInv == ASSUME IInv, Disturb PROVE IInv'
<1> USE LastAssumption, OutcomeAssumption, KindAssumption
<1> USE DEF IInv, AtEnd
<1>1. /\ journal' = journal /\ disk' = disk /\ receipt' = receipt /\ active' = active
      /\ effects' = effects /\ pc' \in {"down", "assess"}
  BY DEF Disturb, Crash, TearByCrash, TearByError, Interrupted
<1>2. (torn' = torn /\ pc' = "down") \/ (torn' = TRUE /\ Appending)
  BY DEF Disturb, Crash, TearByCrash, TearByError, Interrupted
<1>3. TypeInv'
  <2>1. torn' \in BOOLEAN
    BY <1>2 DEF TypeInv
  <2> QED BY <1>1, <2>1, Unlogged DEF TypeInv, HasNewest
<1>4. Appending => LastRecord.type # "RUN_FINALIZED"
  BY DEF Appending, ProcessInv, JournalInv
<1>5. torn' => LastRecord.type # "RUN_FINALIZED"
  BY <1>2, <1>4 DEF ProcessInv
<1>6. JournalInv' /\ ReceiptInv' /\ EffectInv'
  BY <1>1, Unlogged DEF JournalInv, ReceiptInv, EffectInv
<1>7. ProcessInv'
  BY <1>1, <1>5, Unlogged DEF ProcessInv
<1> QED BY <1>3, <1>6, <1>7

-----------------------------------------------------------------------------
LEMMA Invariance == Spec => []IInv
<1>1. IInv /\ [Next]_vars => IInv'
  <2> SUFFICES ASSUME IInv, [Next]_vars PROVE IInv'
    OBVIOUS
  <2>1. CASE UNCHANGED vars
    <3>1. TypeInv'
      BY <2>1, Unlogged DEF vars, IInv, TypeInv, HasNewest
    <3> QED BY <2>1, <3>1, Unlogged DEF vars, IInv, JournalInv, ProcessInv, ReceiptInv, EffectInv
  <2> QED BY <2>1, StepInv, EndInv, RecoverInv, DisturbInv DEF Next
<1> QED BY <1>1, InitInv, PTL DEF Spec

(* A side effect that nobody can reconcile happens at most once per state      *)
(* version, for any capabilities, crashes and resumes (recovery.py             *)
(* _assess_started).                                                           *)
THEOREM SideEffectsHappenOnce == Spec => []WriteOnce
<1>1. IInv => WriteOnce
  BY DEF IInv, EffectInv, WriteOnce
<1> QED BY <1>1, Invariance, PTL

(* The project is given up only with a terminal receipt, and the receipt names *)
(* the final state and the one RUN_FINALIZED record at the end of the journal  *)
(* (coordinator.py _finalize).                                                 *)
THEOREM ReceiptsAreTrue == Spec => []TerminalEvidence
<1>1. IInv => TerminalEvidence
  BY DEF IInv, JournalInv, ReceiptInv, TerminalEvidence
<1> QED BY <1>1, Invariance, PTL

(* What crashes and recovery leave in state.json and the journal is a log of   *)
(* decisions: a result is decided once, committed once, and never replaced.    *)
THEOREM RunImplementsDecisionLog == Spec => ImplementsDecisionLog
<1> USE LastAssumption, OutcomeAssumption
<1> USE DEF AtEnd
<1>1. Init => Log!Init
  <2> SUFFICES ASSUME Init PROVE Log!Init
    OBVIOUS
  <2>1. DOMAIN journal \ Of("RECOVERY_NOTE") = {1} /\ journal[1].type = "RUN_STARTED"
    BY DEF Init, Of, RunStarted, Record
  <2>2. LastRecord = journal[1]
    BY <2>1, NewestIs DEF LastRecord
  <2> QED BY <2>1, <2>2 DEF Init, Log!Init, Decided
<1>2. IInv /\ [Next]_vars => [Log!Next]_<<disk, Decided>>
  <2> SUFFICES ASSUME IInv, [Next]_vars PROVE Log!Next \/ (disk' = disk /\ Decided' = Decided)
    BY DEF Log!Next
  <2>1. disk \in Seq(Outcomes) /\ Len(disk) \in Nat /\ Len(disk) <= Last
    BY DEF IInv, TypeInv
  <2>2. CASE RecordResult
    <3>1. /\ ResultRecorded(loaded, outcome) \in Records /\ loaded = disk /\ outcome \in Outcomes
          /\ LastRecord.type = "NODE_STARTED" /\ Len(disk) < Last
      BY <2>1, <2>2, RecordsMade DEF RecordResult, IInv, ProcessInv, JournalInv
    <3>2. LastRecord' = ResultRecorded(disk, outcome)
      BY <2>2, <3>1, Appended DEF RecordResult, Logs, ResultRecorded, Record, IInv
    <3>3. disk' = disk /\ Decided = NoOutcome /\ Decided' = outcome
      BY <2>2, <3>1, <3>2 DEF RecordResult, Decided, ResultRecorded, Record
    <3> QED BY <3>1, <3>3 DEF Log!Next, Log!Decide
  <2>3. CASE Swap \/ Reapply
    <3>1. /\ journal' = journal /\ LastRecord.type = "NODE_RESULT_RECORDED"
          /\ LastRecord.base = Len(disk) /\ LastRecord.result \in Outcomes
          /\ disk' = Append(disk, LastRecord.result)
      BY <2>3 DEF Swap, Reapply, IInv, ProcessInv, JournalInv
    <3>2. LastRecord' = LastRecord /\ Len(disk') # LastRecord.base
      BY <2>1, <3>1, Unlogged
    <3>3. Decided = LastRecord.result /\ Decided' = NoOutcome
      BY <3>1, <3>2 DEF Decided
    <3> QED BY <3>1, <3>3 DEF Log!Next, Log!Commit
  <2>4. CASE StartNode
    <3>1. LastRecord' = NodeStarted(disk) /\ LastRecord.type # "NODE_RESULT_RECORDED"
      BY <2>1, <2>4, RecordsMade, Appended
         DEF StartNode, Logs, IInv, ProcessInv, NodeStarted, Record
    <3> QED BY <2>4, <3>1 DEF StartNode, Decided, NodeStarted, Record
  <2>5. CASE MarkCommitted
    <3>1. LastRecord' = Committed(disk)
      BY <2>1, <2>5, RecordsMade, Appended DEF MarkCommitted, Logs, IInv, Committed, Record
    <3>2. Decided = NoOutcome
      <4>1. LastRecord.type = "NODE_RESULT_RECORDED" /\ LastRecord.digest = disk
        BY <2>5 DEF MarkCommitted, IInv, ProcessInv
      <4>2. LastRecord.base # Len(disk)
        <5>1. Append(disk, LastRecord.result) # disk
          BY <2>1, <4>1 DEF IInv, JournalInv
        <5> QED BY <4>1, <5>1, <2>1 DEF IInv, JournalInv
      <4> QED BY <4>2 DEF Decided
    <3> QED BY <2>5, <3>1, <3>2 DEF MarkCommitted, Decided, Committed, Record
  <2>6. CASE Finalize
    <3>1. LastRecord.type # "NODE_RESULT_RECORDED"
      BY <2>6 DEF Finalize, IInv, ProcessInv
    <3>2. CASE journal' = journal
      BY <2>6, <3>2, Unlogged DEF Finalize, Decided
    <3>3. CASE Logs(RunFinalized(disk))
      <4>1. LastRecord' = RunFinalized(disk)
        BY <2>1, <3>3, RecordsMade, Appended DEF Logs, IInv, RunFinalized, Record
      <4> QED BY <2>6, <3>1, <4>1 DEF Finalize, Decided, RunFinalized, Record
    <3> QED BY <2>6, <3>2, <3>3 DEF Finalize
  <2>7. CASE RepairTornTail
    <3>1. LastRecord' = LastRecord
      BY <2>7, Noted DEF RepairTornTail, IInv
    <3> QED BY <2>7, <3>1 DEF RepairTornTail, Decided
  <2>8. CASE Act \/ Return \/ WriteReceipt \/ ClearActive \/ OpenSession \/ Assess \/ Disturb
    <3>1. journal' = journal /\ disk' = disk
      BY <2>8 DEF Act, Return, WriteReceipt, ClearActive, OpenSession, Assess, Disturb, Crash,
                  TearByCrash, TearByError, Interrupted, durable, volatile
    <3> QED BY <3>1, Unlogged DEF Decided
  <2>9. CASE UNCHANGED vars
    BY <2>9, Unlogged DEF vars, Decided
  <2> QED BY <2>2, <2>3, <2>4, <2>5, <2>6, <2>7, <2>8, <2>9 DEF Next, Step, End, Recover
<1> QED BY <1>1, <1>2, Invariance, PTL DEF Spec, ImplementsDecisionLog, Log!Spec

-----------------------------------------------------------------------------
\* Recovery refuses a run only at an interrupted side effect, the swap finds the state it
\* loaded, and a receipt that is there is the one to be written: nothing else ends a
\* command that nobody cuts short before the run is finalized.
BlockedForCause ==
    /\ ~torn => \A reconciled \in BOOLEAN :
                   Assessment(reconciled) = "BLOCKED" => SideEffectInterrupted
    /\ pc = "recorded" => Len(disk) = Len(loaded)
    /\ pc = "receipt" /\ receipt # NoReceipt =>
          receipt = [digest |-> disk, seq |-> Len(journal)]

(* The newest record is of the protocol.                                       *)
LEMMA LastRecordTyped ==
    ASSUME TypeInv
    PROVE  LastRecord.type \in RecordTypes \ {"RECOVERY_NOTE"}
<1>1. Newest(Protocol) \in Protocol
  BY NewestIn DEF TypeInv, Protocol
<1>2. /\ Newest(Protocol) \in DOMAIN journal
      /\ journal[Newest(Protocol)].type # "RECOVERY_NOTE"
  BY <1>1 DEF Protocol, Of
<1>3. journal[Newest(Protocol)] \in Records
  BY <1>2 DEF TypeInv
<1> QED BY <1>2, <1>3 DEF LastRecord, Protocol, Records

(* No branch of the assessment but one finds something that does not agree.     *)
LEMMA AssessesForCause ==
    ASSUME IInv, NEW reconciled \in BOOLEAN, Assessment(reconciled) = "BLOCKED"
    PROVE  SideEffectInterrupted
<1> USE DEF IInv
<1>1. CASE LastRecord.type \in {"RUN_FINALIZED", "RUN_STARTED"}
  BY <1>1 DEF JournalInv, Assessment, CleanOrCompleted
<1>2. CASE LastRecord.type = "NODE_STARTED"
  <2>1. LastRecord.base = Len(disk)
    BY <1>2 DEF JournalInv
  <2>2. AssessStarted(reconciled) = "BLOCKED"
    BY <1>2 DEF Assessment
  <2>3. Kind[Len(disk)] # "safe"
    BY <2>1, <2>2 DEF AssessStarted
  <2> QED BY <1>2, <2>1, <2>3 DEF SideEffectInterrupted
<1>3. CASE LastRecord.type = "NODE_RESULT_RECORDED"
  <2>1. /\ Starts # {} /\ NewestStart.base = LastRecord.base
        /\ \/ LastRecord.base = Len(disk) /\ LastRecord.digest = Append(disk, LastRecord.result)
           \/ LastRecord.base + 1 = Len(disk) /\ LastRecord.digest = disk
    BY <1>3 DEF JournalInv
  <2>2. AssessRecorded # "BLOCKED"
    <3>1. Len(disk) \in Nat
      BY DEF TypeInv
    <3>2. LastRecord.base + 1 = Len(disk) => LastRecord.base # Len(disk)
      BY <3>1, SMT
    <3> QED BY <2>1, <3>2 DEF AssessRecorded, Starts, NewestStart
  <2> QED BY <1>3, <2>2 DEF Assessment
<1>4. CASE LastRecord.type = "TRANSITION_COMMITTED"
  <2>1. AssessCommitted # "BLOCKED"
    BY <1>4 DEF JournalInv, AssessCommitted, CleanOrCompleted, Results, NewestResult
  <2> QED BY <1>4, <2>1 DEF Assessment
<1> QED BY <1>1, <1>2, <1>3, <1>4, LastRecordTyped DEF RecordTypes

(* Every run that nobody can resume waits at an interrupted side effect or at a torn line,  *)
(* and no step of a session meets files it did not expect: the safety half of RunConcludes. *)
THEOREM RunsAreBlockedForCause == Spec => []BlockedForCause
<1>1. IInv => BlockedForCause
  <2> SUFFICES ASSUME IInv PROVE BlockedForCause
    OBVIOUS
  <2>1. pc = "recorded" => Len(disk) = Len(loaded)
    BY DEF IInv, ProcessInv
  <2>2. receipt # NoReceipt => receipt = [digest |-> disk, seq |-> Len(journal)]
    BY DEF IInv, ReceiptInv
  <2> QED BY <2>1, <2>2, AssessesForCause DEF BlockedForCause
<1> QED BY <1>1, Invariance, PTL
=============================================================================
