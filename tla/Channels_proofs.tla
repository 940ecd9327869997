-------------------------- MODULE Channels_proofs --------------------------
(***************************************************************************)
(* Nothing goes out twice by itself and everybody is told the truth: the   *)
(* ledger of channel sends (ChannelSends), and the delivery of an agent's  *)
(* replies (ReplyDelivery), for any number of calls, keys, records,        *)
(* replies, sweeps and restarts.                                           *)
(***************************************************************************)
EXTENDS ChannelSends, ReplyDelivery, FiniteSetTheorems, TLAPS

-----------------------------------------------------------------------------
(* The ledger                                                              *)

CallStates == {"idle", "waiting", "receipt", "failed", "unknown", "conflict",
               "refused", "gone"}

\* The parts of the state change that the types depend on.
LEMMA RecordTypes ==
    ASSUME LedgerTypeOK
    PROVE  /\ Absent \in RecordType
           /\ \A c \in Callers : /\ KeyOf[c] \in Keys
                                 /\ Record("pending", HashOf[c]) \in RecordType
           /\ Loaded \in [Keys -> RecordType]
           /\ \A k \in Keys : Outcome(k) \in CallStates
           /\ \A k \in Keys, s \in RecordStates :
                 [records EXCEPT ![k].state = s] \in [Keys -> RecordType]
           /\ \A k \in Keys, x \in CallStates : Returned(k, x) \in [Callers -> CallStates]
<1> USE DEF LedgerTypeOK, RecordType
<1>1. Absent \in RecordType
  BY DEF Absent, Record, RecordStates
<1>2. \A c \in Callers : KeyOf[c] \in Keys /\ Record("pending", HashOf[c]) \in RecordType
  BY SendsAssumption DEF Record, RecordStates, Hashes
<1>3. Loaded \in [Keys -> RecordType]
  BY DEF Loaded, RecordStates
<1>4. \A k \in Keys : Outcome(k) \in CallStates
  BY DEF Outcome, CallStates
<1>5. \A k \in Keys, s \in RecordStates :
         [records EXCEPT ![k].state = s] \in [Keys -> RecordType]
  OBVIOUS
<1>6. \A k \in Keys, x \in CallStates : Returned(k, x) \in [Callers -> CallStates]
  BY DEF Returned, CallStates
<1> QED
  BY <1>1, <1>2, <1>3, <1>4, <1>5, <1>6

\* Every step keeps the types.
LEMMA LedgerTypeNext == LedgerTypeOK /\ [LedgerNext]_ledgerVars => LedgerTypeOK'
<1> SUFFICES ASSUME LedgerTypeOK, [LedgerNext]_ledgerVars PROVE LedgerTypeOK'
  OBVIOUS
<1> USE RecordTypes DEF history
<1>1. ASSUME NEW c \in Callers, SendKnown(c) PROVE LedgerTypeOK'
  <2>1. Answer(c) \in CallStates
    BY DEF Answer, CallStates
  <2>2. call' \in [Callers -> CallStates]
    BY <1>1, <2>1 DEF SendKnown, LedgerTypeOK, CallStates
  <2> QED
    BY <1>1, <2>2 DEF SendKnown, LedgerTypeOK, CallStates
<1>2. ASSUME NEW c \in Callers, SendNew(c) PROVE LedgerTypeOK'
  <2> DEFINE old == {k \in Keys : Prunable(k)}
             kept == [k \in Keys |-> IF k \in old THEN Absent ELSE records[k]]
             new == [kept EXCEPT ![KeyOf[c]] = Record("pending", HashOf[c])]
  <2>1. kept \in [Keys -> RecordType] /\ new \in [Keys -> RecordType]
    BY DEF LedgerTypeOK
  <2>2. /\ records' \in {kept, new} /\ file' \in {file, new}
        /\ active' \in {active, active \cup {KeyOf[c]}}
        /\ \/ call' = [call EXCEPT ![c] = "refused"]
           \/ call' = [call EXCEPT ![c] = "waiting"]
        /\ sent' = sent \/ sent' = [sent EXCEPT ![KeyOf[c]] = @ + 1]
        /\ dropped' = dropped \cup old
        /\ UNCHANGED <<accepting, restarts, took>>
    BY <1>2, Zenon DEF SendNew, Submit
  <2>3. call' \in [Callers -> CallStates]
    BY <2>2 DEF LedgerTypeOK, CallStates
  <2>4. sent' \in [Keys -> Nat]
    <3>1. sent \in [Keys -> Nat] /\ KeyOf[c] \in Keys /\ sent[KeyOf[c]] + 1 \in Nat
      BY DEF LedgerTypeOK
    <3> QED
      BY <2>2, <3>1
  <2>5. dropped' \subseteq Keys
    BY <2>2 DEF LedgerTypeOK
  <2> HIDE DEF kept, new
  <2> QED
    BY <2>1, <2>2, <2>3, <2>4, <2>5 DEF LedgerTypeOK, CallStates
<1>3. ASSUME NEW k \in Keys, SubmitEnds(k) PROVE LedgerTypeOK'
  <2>1. /\ \E s \in RecordStates : records' = [records EXCEPT ![k].state = s]
        /\ file' = records' \/ file' = file
        /\ \E x \in CallStates : call' = Returned(k, x)
        /\ took' = took \/ took' = took \cup {k}
    <3>1. {"submitted", "failed", "unknown"} \subseteq RecordStates
          /\ {"receipt", "failed", "unknown"} \subseteq CallStates
      BY DEF RecordStates, CallStates
    <3> QED
      BY <1>3, <3>1 DEF SubmitEnds, Submitted, Refused, Lost
  <2>2. records' \in [Keys -> RecordType]
    BY <2>1
  <2>5. file' \in [Keys -> RecordType]
    BY <2>1, <2>2 DEF LedgerTypeOK
  <2>3. call' \in [Callers -> CallStates] /\ took' \subseteq Keys
    BY <2>1 DEF LedgerTypeOK
  <2>4. active' \subseteq Keys /\ UNCHANGED <<accepting, restarts, sent, dropped>>
    BY <1>3 DEF SubmitEnds, LedgerTypeOK
  <2> QED
    BY <2>2, <2>3, <2>4, <2>5 DEF LedgerTypeOK, CallStates
<1>4. ASSUME NEW k \in Keys, Age(k) PROVE LedgerTypeOK'
  <2>1. \A f \in [Keys -> RecordType], b \in BOOLEAN :
           [f EXCEPT ![k].old = b] \in [Keys -> RecordType]
    BY DEF RecordType
  <2> DEFINE b == file[k].state # "none"
  <2>2. b \in BOOLEAN
    OBVIOUS
  <2>3. /\ records' = [records EXCEPT ![k].old = TRUE]
        /\ file' = [file EXCEPT ![k].old = b]
    BY <1>4 DEF Age
  <2> HIDE DEF b
  <2>4. records' \in [Keys -> RecordType] /\ file' \in [Keys -> RecordType]
    BY <2>1, <2>2, <2>3 DEF LedgerTypeOK
  <2> QED
    BY <1>4, <2>4 DEF Age, LedgerTypeOK
<1>5. CASE Release \/ Reopen
  BY <1>5 DEF Release, Reopen, LedgerTypeOK
<1>6. CASE LedgerRestart
  <2>1. call' \in [Callers -> CallStates]
    BY <1>6 DEF LedgerRestart, LedgerTypeOK, CallStates
  <2>2. restarts' \in 0..MaxRestarts
    BY <1>6, SendsAssumption DEF LedgerRestart, LedgerTypeOK
  <2> QED
    BY <1>6, <2>1, <2>2 DEF LedgerRestart, LedgerTypeOK, CallStates
<1>7. CASE UNCHANGED ledgerVars
  BY <1>7 DEF ledgerVars, LedgerTypeOK
<1> QED
  BY <1>1, <1>2, <1>3, <1>4, <1>5, <1>6, <1>7 DEF LedgerNext

\* The ledger starts with its types.
LEMMA LedgerTypeInit == LedgerInit => LedgerTypeOK
BY SendsAssumption DEF LedgerInit, LedgerTypeOK, RecordType, Absent, Record, RecordStates

\* The records, the calls and the counters keep their types.
THEOREM LedgerTypeCorrect == LedgerSpec => []LedgerTypeOK
BY LedgerTypeInit, LedgerTypeNext, PTL DEF LedgerSpec

-----------------------------------------------------------------------------
(* At most one submission per key                                          *)

\* A key that was submitted keeps its record, in memory and in the file, until
\* the record is dropped by its age.
SentIsRecorded ==
    \A k \in Keys \ dropped :
        sent[k] > 0 => records[k].state # "none" /\ file[k].state # "none"

OnceInv == WrittenAhead /\ SentIsRecorded /\ AtMostOnce

\* What a new send does to the records, key by key: it drops none that is
\* pending, and marks every one that it drops.
LEMMA SendNewEffect ==
    ASSUME LedgerTypeOK, NEW c \in Callers, SendNew(c)
    PROVE  /\ records[KeyOf[c]].state = "none" /\ KeyOf[c] \in Keys
           /\ \A k \in Keys \ {KeyOf[c]} :
                 \/ records'[k] = records[k]
                 \/ /\ records[k].state \in {"submitted", "failed"}
                    /\ records'[k] = Absent /\ k \in dropped'
           /\ dropped \subseteq dropped'
           /\ \/ /\ file' = records' /\ active' = active \cup {KeyOf[c]}
                 /\ sent' = [sent EXCEPT ![KeyOf[c]] = @ + 1]
                 /\ records'[KeyOf[c]] = Record("pending", HashOf[c])
                 /\ call' = [call EXCEPT ![c] = "waiting"]
              \/ /\ UNCHANGED <<file, active, sent>>
                 /\ call' = [call EXCEPT ![c] = "refused"]
                 /\ records'[KeyOf[c]] \in {records[KeyOf[c]],
                                           Record("pending", HashOf[c])}
           /\ UNCHANGED took
<1> DEFINE key == KeyOf[c]
           old == {k \in Keys : Prunable(k)}
           kept == [k \in Keys |-> IF k \in old THEN Absent ELSE records[k]]
           new == [kept EXCEPT ![key] = Record("pending", HashOf[c])]
<1>1. key \in Keys
  BY SendsAssumption
<1>2. /\ records[key].state = "none"
      /\ dropped' = dropped \cup old
      /\ UNCHANGED took
      /\ \/ /\ records' = new /\ file' = new /\ active' = active \cup {key}
            /\ sent' = [sent EXCEPT ![key] = @ + 1]
            /\ call' = [call EXCEPT ![c] = "waiting"]
         \/ /\ records' \in {kept, new}
            /\ UNCHANGED <<file, active, sent>>
            /\ call' = [call EXCEPT ![c] = "refused"]
  BY Zenon DEF SendNew, Submit
<1>3. \A k \in Keys \ {key} :
         kept[k] = new[k] /\ new[k] = IF k \in old THEN Absent ELSE records[k]
  OBVIOUS
<1>4. new[key] = Record("pending", HashOf[c])
  BY <1>1
<1>5. \A k \in old : records[k].state \in {"submitted", "failed"}
  BY DEF Prunable
<1>6. kept[key] = records[key]
  BY <1>1, <1>2 DEF Prunable
<1> HIDE DEF new, kept, old
<1> QED
  BY <1>1, <1>2, <1>3, <1>4, <1>5, <1>6

\* What the end of a submission does to the records.
LEMMA SubmitEndsEffect ==
    ASSUME LedgerTypeOK, NEW k \in Keys, SubmitEnds(k)
    PROVE  /\ k \in active /\ active' = active \ {k}
           /\ UNCHANGED <<sent, dropped>>
           /\ \A j \in Keys \ {k} : records'[j] = records[j]
           /\ \/ /\ records'[k].state = "submitted"
                 /\ took' = took \cup {k}
                 /\ call' = Returned(k, "receipt")
                 /\ file' = records' \/ file' = file
              \/ /\ records'[k].state = "failed" /\ took' = took
                 /\ call' = Returned(k, "failed")
                 /\ file' = records'
              \/ /\ records'[k].state = "unknown"
                 /\ took' = took \/ took' = took \cup {k}
                 /\ call' = Returned(k, "unknown")
                 /\ file' = records' \/ file' = file
<1>1. \A s \in RecordStates :
         LET f == [records EXCEPT ![k].state = s]
         IN  f[k].state = s /\ \A j \in Keys \ {k} : f[j] = records[j]
  BY DEF LedgerTypeOK, RecordType
<1>2. {"submitted", "failed", "unknown"} \subseteq RecordStates
  BY DEF RecordStates
<1>3. CASE Submitted(k)
  BY <1>1, <1>2, <1>3 DEF SubmitEnds, Submitted
<1>4. CASE Refused(k)
  <2>1. \/ /\ records' = [records EXCEPT ![k].state = "failed"]
           /\ call' = Returned(k, "failed") /\ file' = records'
        \/ /\ records' = [records EXCEPT ![k].state = "unknown"]
           /\ call' = Returned(k, "unknown") /\ file' = file
    BY <1>4 DEF Refused
  <2>2. CASE records' = [records EXCEPT ![k].state = "failed"]
    <3>1. records'[k].state = "failed" /\ \A j \in Keys \ {k} : records'[j] = records[j]
      BY <1>1, <1>2, <2>2
    <3>2. records'[k].state # "unknown"
      BY <3>1
    <3>3. records' # [records EXCEPT ![k].state = "unknown"]
      BY <1>1, <1>2, <3>2
    <3> QED
      BY <1>4, <2>1, <3>1, <3>3 DEF SubmitEnds, Refused
  <2>3. CASE records' = [records EXCEPT ![k].state = "unknown"] /\ file' = file
             /\ call' = Returned(k, "unknown")
    <3>1. records'[k].state = "unknown" /\ \A j \in Keys \ {k} : records'[j] = records[j]
      BY <1>1, <1>2, <2>3
    <3> QED
      BY <1>4, <2>3, <3>1 DEF SubmitEnds, Refused
  <2> QED
    BY <2>1, <2>2, <2>3
<1>5. CASE Lost(k)
  <2>1. records' = [records EXCEPT ![k].state = "unknown"]
    BY <1>5 DEF Lost
  <2>2. /\ took' = took \/ took' = took \cup {k}
        /\ call' = Returned(k, "unknown")
        /\ file' = records' \/ file' = file
    BY <1>5 DEF Lost
  <2>3. records'[k].state = "unknown" /\ \A j \in Keys \ {k} : records'[j] = records[j]
    BY <1>1, <1>2, <2>1
  <2> QED
    BY <2>2, <2>3 DEF SubmitEnds
<1> QED
  BY <1>3, <1>4, <1>5 DEF SubmitEnds

\* Reading the file again turns pending into unknown and nothing else.
LEMMA LoadedEffect ==
    ASSUME LedgerTypeOK, NEW k \in Keys
    PROVE  /\ file[k].state = "pending" => Loaded[k].state = "unknown"
           /\ file[k].state # "pending" => Loaded[k].state = file[k].state
BY DEF Loaded, LedgerTypeOK, RecordType

\* A record gets old; its state stays.
LEMMA AgeEffect ==
    ASSUME LedgerTypeOK, NEW k \in Keys, Age(k), NEW j \in Keys
    PROVE  records'[j].state = records[j].state /\ file'[j].state = file[j].state
BY DEF Age, LedgerTypeOK, RecordType

\* Every step keeps the submission of a key single.
LEMMA OnceNext == LedgerTypeOK /\ OnceInv /\ [LedgerNext]_ledgerVars => OnceInv'
<1> SUFFICES ASSUME LedgerTypeOK, OnceInv, [LedgerNext]_ledgerVars PROVE OnceInv'
  OBVIOUS
<1> USE DEF history, OnceInv, WrittenAhead, SentIsRecorded, AtMostOnce
<1>t. sent \in [Keys -> Nat] /\ active \subseteq Keys
  BY DEF LedgerTypeOK
<1>1. ASSUME NEW c \in Callers, SendKnown(c) PROVE OnceInv'
  BY <1>1 DEF SendKnown
<1>2. ASSUME NEW c \in Callers, SendNew(c) PROVE OnceInv'
  <2>1. KeyOf[c] \notin active
    BY <1>2, SendNewEffect
  <2>0. Record("pending", HashOf[c]).state = "pending"
    BY DEF Record
  <2>2. WrittenAhead'
    <3> SUFFICES ASSUME NEW k \in active'
                 PROVE  file'[k].state = "pending" /\ records'[k].state = "pending"
      OBVIOUS
    <3>1. CASE k \in active
      <4>1. k \in Keys \ {KeyOf[c]} /\ records[k].state = "pending"
        BY <1>t, <2>1, <3>1
      <4>2. records'[k] = records[k] /\ file'[k] \in {records[k], file[k]}
        BY <1>2, <4>1, SendNewEffect
      <4> QED
        BY <3>1, <4>2
    <3>2. CASE k \notin active
      <4>1. k = KeyOf[c] /\ file' = records'
            /\ records'[k] = Record("pending", HashOf[c])
        BY <1>2, <3>2, SendNewEffect
      <4> QED
        BY <2>0, <4>1
    <3> QED
      BY <3>1, <3>2
  <2>3. \A k \in Keys \ dropped' :
           /\ sent'[k] > 0 => records'[k].state # "none" /\ file'[k].state # "none"
           /\ sent'[k] <= 1
    <3> SUFFICES ASSUME NEW k \in Keys \ dropped'
                 PROVE  /\ sent'[k] > 0 => records'[k].state # "none"
                                           /\ file'[k].state # "none"
                        /\ sent'[k] <= 1
      OBVIOUS
    <3>1. k \notin dropped /\ sent[k] \in Nat
      BY <1>2, <1>t, SendNewEffect
    <3>2. CASE k = KeyOf[c]
      <4>1. sent[k] = 0
        BY <1>2, <3>1, <3>2, SendNewEffect
      <4>2. CASE sent' = sent
        BY <4>1, <4>2
      <4>3. CASE sent' # sent
        <5>1. /\ sent' = [sent EXCEPT ![k] = @ + 1] /\ file' = records'
              /\ records'[k].state = "pending"
          BY <1>2, <2>0, <3>2, <4>3, SendNewEffect
        <5>2. sent'[k] = 1
          BY <1>t, <4>1, <5>1
        <5> QED
          BY <5>1, <5>2
      <4> QED
        BY <4>2, <4>3
    <3>3. CASE k # KeyOf[c]
      <4>1. records'[k] = records[k] /\ sent'[k] = sent[k]
            /\ file'[k] \in {records[k], file[k]}
        BY <1>2, <1>t, <3>3, SendNewEffect
      <4> QED
        BY <3>1, <4>1
    <3> QED
      BY <3>2, <3>3
  <2> QED
    BY <2>2, <2>3
<1>3. ASSUME NEW k \in Keys, SubmitEnds(k) PROVE OnceInv'
  <2>1. /\ UNCHANGED <<sent, dropped>> /\ active' = active \ {k}
        /\ records'[k].state # "none"
        /\ \A j \in Keys \ {k} : records'[j] = records[j]
        /\ file' = records' \/ file' = file
        /\ file[k].state = "pending"
    BY <1>3, SubmitEndsEffect
  <2> QED
    BY <1>t, <2>1
<1>4. ASSUME NEW k \in Keys, Age(k) PROVE OnceInv'
  <2>1. UNCHANGED <<sent, dropped, active>>
    BY <1>4 DEF Age
  <2> QED
    BY <1>4, <1>t, <2>1, AgeEffect
<1>5. CASE Release
  BY <1>5 DEF Release
<1>6. CASE Reopen \/ LedgerRestart
  <2>1. records' = Loaded /\ active' = {} /\ UNCHANGED <<file, sent, dropped>>
    BY <1>6 DEF Reopen, LedgerRestart
  <2> QED
    BY <2>1, LoadedEffect
<1>7. CASE UNCHANGED ledgerVars
  BY <1>7 DEF ledgerVars
<1> QED
  BY <1>1, <1>2, <1>3, <1>4, <1>5, <1>6, <1>7 DEF LedgerNext

\* An empty ledger has sent nothing.
LEMMA OnceInit == LedgerInit => OnceInv
BY DEF LedgerInit, OnceInv, WrittenAhead, SentIsRecorded, AtMostOnce

\* The provider is called at most once for a key while its record is kept,
\* whatever calls overlap, whichever writes of the file fail, and whenever the
\* host stops.
THEOREM AlwaysAtMostOnce == LedgerSpec => []AtMostOnce
<1>1. LedgerTypeOK /\ OnceInv /\ [LedgerNext]_ledgerVars => (LedgerTypeOK /\ OnceInv)'
  BY LedgerTypeNext, OnceNext
<1>2. OnceInv => AtMostOnce
  BY DEF OnceInv
<1> QED
  BY <1>1, <1>2, LedgerTypeInit, OnceInit, PTL DEF LedgerSpec

-----------------------------------------------------------------------------
(* What callers are told                                                   *)

\* A key is taken only by a submission; a record says "submitted" only of a
\* message that was taken and "failed" only of one that was not; and a failure
\* that a caller was told is on record in the file too, which is what keeps it
\* true after a restart.
TruthInv ==
    /\ \A k \in took \cup active : sent[k] > 0
    /\ \A k \in Keys :
          records[k].state = "submitted" \/ file[k].state = "submitted" => k \in took
    /\ \A k \in Keys \ dropped :
          /\ records[k].state = "failed" => file[k].state = "failed"
          /\ file[k].state = "failed" => k \notin took
          /\ k \in active => k \notin took
    /\ \A c \in Callers :
          LET k == KeyOf[c]
          IN  k \notin dropped =>
                /\ call[c] = "receipt" => k \in took
                /\ call[c] = "failed" =>
                      records[k].state = "failed" /\ file[k].state = "failed"

\* Every step keeps what was told true.
LEMMA TruthNext ==
    LedgerTypeOK /\ OnceInv /\ TruthInv /\ [LedgerNext]_ledgerVars => TruthInv'
<1> SUFFICES ASSUME LedgerTypeOK, OnceInv, TruthInv, [LedgerNext]_ledgerVars PROVE TruthInv'
  OBVIOUS
<1> USE DEF history
<1>t. /\ sent \in [Keys -> Nat] /\ active \subseteq Keys /\ took \subseteq Keys
      /\ call \in [Callers -> CallStates] /\ \A c \in Callers : KeyOf[c] \in Keys
  BY SendsAssumption DEF LedgerTypeOK, CallStates
<1>1. ASSUME NEW c \in Callers, SendKnown(c) PROVE TruthInv'
  <2>1. /\ UNCHANGED <<records, file, active, sent, took, dropped>>
        /\ call' = [call EXCEPT ![c] = IF accepting THEN Answer(c) ELSE "refused"]
    BY <1>1 DEF SendKnown
  <2>2. /\ Answer(c) = "receipt" => records[KeyOf[c]].state = "submitted"
        /\ Answer(c) = "failed" => records[KeyOf[c]].state = "failed"
    BY DEF Answer, Outcome
  <2> QED
    BY <1>t, <2>1, <2>2 DEF TruthInv
<1>2. ASSUME NEW c \in Callers, SendNew(c) PROVE TruthInv'
  <2> DEFINE key == KeyOf[c]
  <2>0. /\ Record("pending", HashOf[c]).state = "pending"
        /\ Absent.state = "none"
    BY DEF Record, Absent
  <2>1. key \in Keys /\ key \notin active /\ records[key].state = "none"
    BY <1>2, SendNewEffect DEF OnceInv, WrittenAhead
  <2>2. key \notin dropped => sent[key] = 0 /\ key \notin took
    BY <1>t, <2>1 DEF OnceInv, SentIsRecorded, TruthInv
  <2>3. /\ took' = took /\ dropped \subseteq dropped'
        /\ \A k \in Keys : sent'[k] >= sent[k] /\ sent'[k] \in Nat
    BY <1>2, <1>t, SendNewEffect
  <2>4. \A k \in Keys \ {key} :
           /\ \/ records'[k] = records[k]
              \/ records'[k].state = "none" /\ k \in dropped'
           /\ file'[k] = file[k] \/ file'[k] = records'[k]
           /\ k \in active' <=> k \in active
           /\ sent'[k] = sent[k]
    BY <1>2, <1>t, <2>0, SendNewEffect
  <2>5. \/ /\ records'[key].state = "pending" /\ file'[key].state = "pending"
           /\ sent'[key] > 0
        \/ file'[key] = file[key] /\ key \notin active'
    <3>1. CASE sent' = [sent EXCEPT ![key] = @ + 1] /\ file' = records'
               /\ records'[key] = Record("pending", HashOf[c])
      BY <1>t, <2>0, <2>1, <3>1
    <3>2. CASE UNCHANGED <<file, active, sent>>
      BY <2>1, <3>2
    <3> QED
      BY <1>2, <3>1, <3>2, SendNewEffect
  <2>6. records'[key].state \in {"none", "pending"}
    BY <1>2, <2>0, SendNewEffect
  <2>7. /\ \A d \in Callers : call'[d] # call[d] => call'[d] \in {"waiting", "refused"}
    BY <1>2, <1>t, SendNewEffect
  <2>8. ASSUME NEW k \in took' \cup active' PROVE sent'[k] > 0
    <3>1. k \in Keys /\ (k \in took \cup active \/ (k = key /\ k \in active'))
      BY <1>2, <1>t, <2>1, <2>3, <2>4, SendNewEffect
    <3>2. CASE k \in took \cup active
      <4>1. sent[k] > 0 /\ sent[k] \in Nat
        BY <1>t, <3>1, <3>2 DEF TruthInv
      <4> QED
        BY <2>3, <3>1, <4>1
    <3> QED
      BY <2>5, <3>1, <3>2
  <2>9. \A k \in Keys : records'[k].state = "submitted" \/ file'[k].state = "submitted"
                          => k \in took'
    BY <2>3, <2>4, <2>5, <2>6 DEF TruthInv
  <2>10. ASSUME NEW k \in Keys \ dropped'
         PROVE  /\ records'[k].state = "failed" => file'[k].state = "failed"
                /\ file'[k].state = "failed" => k \notin took'
                /\ k \in active' => k \notin took'
    <3>1. CASE k = key
      BY <2>2, <2>3, <2>5, <2>6, <3>1 DEF TruthInv
    <3>2. CASE k # key
      BY <2>3, <2>4, <3>2 DEF TruthInv
    <3> QED
      BY <3>1, <3>2
  <2>11. ASSUME NEW d \in Callers, KeyOf[d] \notin dropped'
         PROVE  /\ call'[d] = "receipt" => KeyOf[d] \in took'
                /\ call'[d] = "failed" => records'[KeyOf[d]].state = "failed"
                                          /\ file'[KeyOf[d]].state = "failed"
    <3>1. /\ call'[d] = "receipt" => call[d] = "receipt"
          /\ call'[d] = "failed" => call[d] = "failed"
      BY <2>7
    <3>2. call[d] = "failed" => KeyOf[d] # key
      BY <2>1, <2>3, <2>11 DEF TruthInv
    <3> QED
      BY <1>t, <2>3, <2>4, <2>11, <3>1, <3>2 DEF TruthInv
  <2> QED
    BY <2>8, <2>9, <2>10, <2>11 DEF TruthInv
<1>3. ASSUME NEW k \in Keys, SubmitEnds(k) PROVE TruthInv'
  <2>1. /\ k \in active /\ records[k].state = "pending" /\ file[k].state = "pending"
        /\ \A j \in Keys \ {k} : records'[j] = records[j]
        /\ file' = records' \/ file' = file
        /\ took \subseteq took' /\ took' \subseteq took \cup {k}
        /\ UNCHANGED <<sent, dropped>> /\ active' = active \ {k}
        /\ records'[k].state \in {"submitted", "failed", "unknown"}
        /\ records'[k].state = "submitted" => k \in took'
        /\ records'[k].state = "failed" => took' = took /\ file' = records'
    BY <1>3, SubmitEndsEffect DEF OnceInv, WrittenAhead
  <2>2. \A d \in Callers :
           \/ call'[d] = call[d]
           \/ KeyOf[d] = k /\ (call'[d] = "receipt" => k \in took')
                            /\ (call'[d] = "failed" => records'[k].state = "failed")
    BY <1>3, <1>t, SubmitEndsEffect DEF Returned
  <2>3. k \notin dropped => k \notin took
    BY <2>1 DEF TruthInv
  <2>4. sent[k] > 0
    BY <2>1 DEF TruthInv
  <2>5. \A j \in took' \cup active' : sent'[j] > 0
    BY <1>t, <2>1, <2>4 DEF TruthInv
  <2>6. \A j \in Keys : records'[j].state = "submitted" \/ file'[j].state = "submitted"
                          => j \in took'
    BY <2>1 DEF TruthInv
  <2>7. \A j \in Keys \ dropped' :
           /\ records'[j].state = "failed" => file'[j].state = "failed"
           /\ file'[j].state = "failed" => j \notin took'
           /\ j \in active' => j \notin took'
    BY <2>1, <2>3 DEF TruthInv
  <2>8. \A d \in Callers : KeyOf[d] \notin dropped' =>
           /\ call'[d] = "receipt" => KeyOf[d] \in took'
           /\ call'[d] = "failed" => records'[KeyOf[d]].state = "failed"
                                      /\ file'[KeyOf[d]].state = "failed"
    BY <1>t, <2>1, <2>2 DEF TruthInv
  <2> QED
    BY <2>5, <2>6, <2>7, <2>8 DEF TruthInv
<1>4. ASSUME NEW k \in Keys, Age(k) PROVE TruthInv'
  <2>1. UNCHANGED <<sent, dropped, active, took, call>>
    BY <1>4 DEF Age
  <2> QED
    BY <1>4, <1>t, <2>1, AgeEffect DEF TruthInv
<1>5. CASE Release
  BY <1>5 DEF Release, TruthInv
<1>6. CASE Reopen \/ LedgerRestart
  <2>1. /\ records' = Loaded /\ active' = {} /\ UNCHANGED <<file, sent, dropped>>
        /\ took \subseteq took' /\ took' \subseteq took \cup active
        /\ \A d \in Callers : call'[d] # call[d] => call'[d] = "gone"
    BY <1>6, <1>t DEF Reopen, LedgerRestart
  <2>2. \A k \in Keys :
           /\ Loaded[k].state = "submitted" => file[k].state = "submitted"
           /\ Loaded[k].state = "failed" <=> file[k].state = "failed"
    BY LoadedEffect
  <2>3. \A k \in Keys : file[k].state = "failed" => k \notin active
    BY DEF OnceInv, WrittenAhead
  <2>4. \A k \in active : sent[k] > 0
    BY DEF TruthInv
  <2>5. \A k \in took' \cup active' : sent'[k] > 0
    BY <1>t, <2>1, <2>4 DEF TruthInv
  <2>6. \A k \in Keys : records'[k].state = "submitted" \/ file'[k].state = "submitted"
                          => k \in took'
    BY <2>1, <2>2 DEF TruthInv
  <2>7. \A k \in Keys \ dropped' :
           /\ records'[k].state = "failed" => file'[k].state = "failed"
           /\ file'[k].state = "failed" => k \notin took'
           /\ k \in active' => k \notin took'
    BY <2>1, <2>2, <2>3 DEF TruthInv
  <2>8. \A d \in Callers : KeyOf[d] \notin dropped' =>
           /\ call'[d] = "receipt" => KeyOf[d] \in took'
           /\ call'[d] = "failed" => records'[KeyOf[d]].state = "failed"
                                      /\ file'[KeyOf[d]].state = "failed"
    BY <1>t, <2>1, <2>2 DEF TruthInv
  <2> QED
    BY <2>5, <2>6, <2>7, <2>8 DEF TruthInv
<1>7. CASE UNCHANGED ledgerVars
  BY <1>7 DEF ledgerVars, TruthInv
<1> QED
  BY <1>1, <1>2, <1>3, <1>4, <1>5, <1>6, <1>7 DEF LedgerNext

\* Nothing was told and nothing taken.
LEMMA TruthInit == LedgerInit => TruthInv
BY SendsAssumption DEF LedgerInit, TruthInv, Absent, Record

\* A caller is told of a receipt only when the provider took its message and
\* of a definite failure only when it did not, for any number of calls, lost
\* answers, failed writes and restarts.
THEOREM AnswersAlwaysTrue == LedgerSpec => []AnswersAreTrue
<1> DEFINE IInv == LedgerTypeOK /\ OnceInv /\ TruthInv
<1>1. LedgerInit => IInv
  BY LedgerTypeInit, OnceInit, TruthInit
<1>2. IInv /\ [LedgerNext]_ledgerVars => IInv'
  BY LedgerTypeNext, OnceNext, TruthNext
<1>3. IInv => AnswersAreTrue
  BY SendsAssumption DEF TruthInv, AnswersAreTrue
<1> QED
  BY <1>1, <1>2, <1>3, PTL DEF LedgerSpec

-----------------------------------------------------------------------------
(* The delivery of replies                                                 *)

Rows == [state : States, attempts : Nat, retry : BOOLEAN, due : BOOLEAN]
Turns == {"succeeded", "undelivered", "cancelled"}

\* The fields of a new row.
LEMMA RowFields ==
    ASSUME NEW s \in States, NEW n \in Nat, NEW b \in BOOLEAN
    PROVE  /\ Row(s, n, b) \in Rows
           /\ Row(s, n, b).state = s
           /\ Row(s, n, b).attempts = n
           /\ Row(s, n, b).retry = b
BY DEF Row, Rows

\* The new turn, field by field.
LEMMA MarkedTypes ==
    ASSUME TypeOK, NEW r \in Replies, NEW d \in BOOLEAN
    PROVE  /\ Marked(r, d) \in [Replies -> Turns]
           /\ \A x \in Replies \ {r} : Marked(r, d)[x] = turn[x]
           /\ d => Marked(r, d)[r] # "undelivered"
           /\ ~d => Marked(r, d)[r] # "succeeded"
BY DEF Marked, TypeOK, Turns

\* What a claim does: a row in a state from which its kind may start is sent.
LEMMA ClaimEffect ==
    ASSUME TypeOK, NEW r \in Replies, NEW k \in Kinds, CanClaim(r, k), Claim(r, k)
    PROVE  /\ row' \in [Replies -> Rows]
           /\ \A x \in Replies \ {r} : row'[x] = row[x]
           /\ row'[r].state = "sending" /\ row'[r].retry = FALSE
           /\ row'[r].attempts = row[r].attempts + 1
           /\ flights' = flights \cup {[reply |-> r, kind |-> k]}
           /\ row[r].state \in {"pending", "failed", "unknown"}
           /\ k \in Sweeps => row[r].retry
<1>1. row \in [Replies -> Rows] /\ row[r].attempts + 1 \in Nat
  BY DEF TypeOK, Rows
<1>2. "sending" \in States
  BY DEF States
<1> DEFINE new == Row("sending", row[r].attempts + 1, FALSE)
<1>3. /\ new \in Rows /\ new.state = "sending" /\ new.retry = FALSE
      /\ new.attempts = row[r].attempts + 1
  BY <1>1, <1>2, RowFields
<1>4. row' = [row EXCEPT ![r] = new]
  BY DEF Claim
<1>5. row[r].state \in {"pending", "failed", "unknown"}
  BY DEF CanClaim, ClaimStates
<1> HIDE DEF new
<1>6. /\ row' \in [Replies -> Rows] /\ row'[r] = new
      /\ \A x \in Replies \ {r} : row'[x] = row[x]
  BY <1>1, <1>3, <1>4
<1> QED
  BY <1>3, <1>5, <1>6 DEF Claim, CanClaim

\* What the end of a send does to its row and its turn.
LEMMA SendEndsEffect ==
    ASSUME TypeOK, NEW f \in flights, SendEnds(f)
    PROVE  /\ f.reply \in Replies /\ f.kind \in Kinds
           /\ row' \in [Replies -> Rows]
           /\ \A x \in Replies \ {f.reply} : row'[x] = row[x] /\ turn'[x] = turn[x]
           /\ turn' \in [Replies -> Turns]
           /\ row'[f.reply].attempts = row[f.reply].attempts
           /\ \/ /\ row'[f.reply].state = "delivered" /\ row'[f.reply].retry = FALSE
                 /\ turn'[f.reply] # "undelivered"
                 /\ arrived' = arrived \cup {f.reply}
              \/ /\ row'[f.reply].state = "failed" /\ row'[f.reply].retry = TRUE
                 /\ f.kind # "manual" /\ row[f.reply].attempts <= Backoffs
                 /\ arrived' = arrived
              \/ /\ row'[f.reply].state \in {"failed", "unknown"}
                 /\ row'[f.reply].retry = FALSE
                 /\ turn'[f.reply] # "succeeded"
                 /\ arrived' \in {arrived, arrived \cup {f.reply}}
           /\ flights' = flights \ {f}
           /\ UNCHANGED <<waiting, todo, manual, crashes>>
<1> DEFINE r == f.reply
           n == row[r].attempts
<1>1. /\ r \in Replies /\ f.kind \in Kinds /\ row \in [Replies -> Rows] /\ n \in Nat
      /\ turn \in [Replies -> Turns]
      /\ {"delivered", "failed", "unknown"} \subseteq States
  BY DEF TypeOK, Rows, Turns, States
<1>2. CASE Sent(f)
  <2> DEFINE new == Row("delivered", n, FALSE)
  <2>1. /\ row' = [row EXCEPT ![r] = new]
        /\ turn' = Marked(r, TRUE) /\ arrived' = arrived \cup {r}
    BY <1>2 DEF Sent
  <2>2. new \in Rows /\ new.state = "delivered" /\ new.retry = FALSE /\ new.attempts = n
    BY <1>1, RowFields
  <2> HIDE DEF new
  <2>3. /\ row' \in [Replies -> Rows] /\ row'[r] = new
        /\ \A x \in Replies \ {r} : row'[x] = row[x]
    BY <1>1, <2>1, <2>2
  <2>4. /\ turn' \in [Replies -> Turns] /\ turn'[r] # "undelivered"
        /\ \A x \in Replies \ {r} : turn'[x] = turn[x]
    BY <1>1, <2>1, MarkedTypes
  <2> QED
    BY <1>1, <2>1, <2>2, <2>3, <2>4 DEF SendEnds
<1>3. ASSUME NEW o \in {"failed", "transient", "unknown"}, NotSent(f, o)
      PROVE  /\ row' \in [Replies -> Rows]
             /\ \A x \in Replies \ {r} : row'[x] = row[x] /\ turn'[x] = turn[x]
             /\ turn' \in [Replies -> Turns]
             /\ row'[r].attempts = n
             /\ \/ /\ row'[r].state = "failed" /\ row'[r].retry = TRUE
                   /\ f.kind # "manual" /\ n <= Backoffs
                   /\ arrived' = arrived
                \/ /\ row'[r].state \in {"failed", "unknown"}
                   /\ row'[r].retry = FALSE
                   /\ turn'[r] # "succeeded"
                   /\ arrived' \in {arrived, arrived \cup {r}}
  <2> DEFINE again == f.kind # "manual" /\ o = "transient" /\ n <= Backoffs
             state == IF o = "unknown" THEN "unknown" ELSE "failed"
  <2>1. /\ row' = [row EXCEPT ![r] = Row(state, n, again)]
        /\ turn' = IF again THEN turn ELSE Marked(r, FALSE)
        /\ arrived' = IF o = "unknown" THEN arrived \cup {r} ELSE arrived
    BY <1>3 DEF NotSent
  <2>2. state \in {"failed", "unknown"} /\ state \in States /\ again \in BOOLEAN
    BY <1>1
  <2>3. again => f.kind # "manual" /\ n <= Backoffs /\ state = "failed" /\ o # "unknown"
    OBVIOUS
  <2> HIDE DEF again, state
  <2>4. /\ row' \in [Replies -> Rows]
        /\ \A x \in Replies \ {r} : row'[x] = row[x]
        /\ row'[r].state = state /\ row'[r].attempts = n /\ row'[r].retry = again
    BY <1>1, <2>1, <2>2, RowFields
  <2>5. CASE again
    BY <1>1, <2>1, <2>3, <2>4, <2>5
  <2>6. CASE ~again
    BY <1>1, <2>1, <2>2, <2>4, <2>6, MarkedTypes
  <2> QED
    BY <2>5, <2>6
<1> QED
  BY <1>1, <1>2, <1>3 DEF SendEnds

\* A person confirms the reply.
LEMMA MarkDeliveredEffect ==
    ASSUME TypeOK, NEW r \in Replies, MarkDelivered(r)
    PROVE  /\ row' \in [Replies -> Rows] /\ turn' \in [Replies -> Turns]
           /\ \A x \in Replies \ {r} : row'[x] = row[x] /\ turn'[x] = turn[x]
           /\ row'[r].state = "delivered" /\ row'[r].retry = FALSE
           /\ row'[r].attempts = row[r].attempts
           /\ turn'[r] # "undelivered"
           /\ row[r].state # "none"
<1> DEFINE n == row[r].attempts
           new == Row("delivered", n, FALSE)
<1>1. row \in [Replies -> Rows] /\ n \in Nat /\ "delivered" \in States
  BY DEF TypeOK, Rows, States
<1>2. new \in Rows /\ new.state = "delivered" /\ new.retry = FALSE /\ new.attempts = n
  BY <1>1, RowFields
<1>3. row' = [row EXCEPT ![r] = new] /\ turn' = Marked(r, TRUE)
  BY DEF MarkDelivered
<1> HIDE DEF new
<1>4. /\ row' \in [Replies -> Rows] /\ row'[r] = new
      /\ \A x \in Replies \ {r} : row'[x] = row[x]
  BY <1>1, <1>2, <1>3
<1>5. /\ turn' \in [Replies -> Turns] /\ turn'[r] # "undelivered"
      /\ \A x \in Replies \ {r} : turn'[x] = turn[x]
  BY <1>3, MarkedTypes
<1> QED
  BY <1>2, <1>4, <1>5 DEF MarkDelivered

\* deliver makes the row and starts the first send.
LEMMA DeliverEffect ==
    ASSUME TypeOK, NEW r \in Replies, Deliver(r)
    PROVE  /\ row' \in [Replies -> Rows]
           /\ \A x \in Replies \ {r} : row'[x] = row[x]
           /\ row'[r].state = "sending" /\ row'[r].retry = FALSE
           /\ row'[r].attempts = 1
           /\ flights' = flights \cup {[reply |-> r, kind |-> "first"]}
           /\ r \in waiting /\ waiting' = waiting \ {r}
           /\ UNCHANGED <<turn, todo, manual, crashes, arrived>>
<1> DEFINE new == Row("sending", 1, FALSE)
<1>1. row \in [Replies -> Rows] /\ "sending" \in States /\ 1 \in Nat
  BY DEF TypeOK, Rows, States
<1>2. new \in Rows /\ new.state = "sending" /\ new.retry = FALSE /\ new.attempts = 1
  BY <1>1, RowFields
<1>3. row' = [row EXCEPT ![r] = new]
  BY DEF Deliver
<1> HIDE DEF new
<1>4. /\ row' \in [Replies -> Rows] /\ row'[r] = new
      /\ \A x \in Replies \ {r} : row'[x] = row[x]
  BY <1>1, <1>2, <1>3
<1> QED
  BY <1>2, <1>4 DEF Deliver

\* A planned time comes: nothing but `due` changes.
LEMMA DueEffect ==
    ASSUME TypeOK, NEW r \in Replies, Due(r)
    PROVE  /\ row' \in [Replies -> Rows]
           /\ \A x \in Replies : /\ row'[x].state = row[x].state
                                  /\ row'[x].retry = row[x].retry
                                  /\ row'[x].attempts = row[x].attempts
           /\ UNCHANGED <<turn, waiting, flights, todo, manual, crashes, arrived>>
BY DEF Due, TypeOK, Rows

\* A restart: the sends that were cut off are unknown and fail their turns.
LEMMA RestartEffect ==
    ASSUME TypeOK, Restart
    PROVE  /\ row' \in [Replies -> Rows] /\ turn' \in [Replies -> Turns]
           /\ \A x \in Replies :
                 IF row[x].state = "sending"
                 THEN /\ row'[x].state = "unknown" /\ row'[x].retry = FALSE
                      /\ row'[x].attempts = row[x].attempts
                      /\ turn'[x] # "succeeded"
                 ELSE row'[x] = row[x] /\ turn'[x] = turn[x]
           /\ arrived' = arrived \cup {f.reply : f \in flights}
           /\ flights' = {} /\ waiting' = {} /\ todo' = [s \in Sweeps |-> {}]
           /\ crashes < MaxCrashes /\ crashes' = crashes + 1
           /\ UNCHANGED manual
<1> DEFINE cut == {r \in Replies : row[r].state = "sending"}
           New(x) == Row("unknown", row[x].attempts, FALSE)
<1>1. /\ row \in [Replies -> Rows] /\ turn \in [Replies -> Turns]
      /\ "unknown" \in States /\ \A x \in Replies : row[x].attempts \in Nat
  BY DEF TypeOK, Rows, States, Turns
<1>2. \A x \in Replies : /\ New(x) \in Rows /\ New(x).state = "unknown"
                         /\ New(x).retry = FALSE
                         /\ New(x).attempts = row[x].attempts
  BY <1>1, RowFields
<1>3. row' = [x \in Replies |-> IF x \in cut THEN New(x) ELSE row[x]]
  BY DEF Restart
<1>4. turn' = [x \in Replies |-> IF x \in cut /\ turn[x] = "succeeded"
                                 THEN "undelivered" ELSE turn[x]]
  BY DEF Restart
<1> HIDE DEF New
<1>5. row' \in [Replies -> Rows]
  BY <1>1, <1>2, <1>3
<1>6. turn' \in [Replies -> Turns]
  BY <1>1, <1>4 DEF Turns
<1> QED
  BY <1>2, <1>3, <1>4, <1>5, <1>6 DEF Restart

-----------------------------------------------------------------------------
(* Types                                                                   *)

\* The rows start absent.
LEMMA TypeInit == Init => TypeOK
<1> SUFFICES ASSUME Init PROVE TypeOK
  OBVIOUS
<1>1. Row("none", 0, FALSE) \in Rows
  BY RowFields DEF States
<1>2. row \in [Replies -> Rows]
  BY <1>1 DEF Init
<1>3. 0 \in 0..MaxManual /\ 0 \in 0..MaxCrashes
  BY DeliveryAssumption
<1> QED
  BY <1>2, <1>3 DEF Init, TypeOK, Rows

\* Every step keeps the types.
LEMMA TypeNext == TypeOK /\ [Next]_vars => TypeOK'
<1> SUFFICES ASSUME TypeOK, [Next]_vars PROVE TypeOK'
  OBVIOUS
<1>1. ASSUME NEW r \in Replies, Deliver(r) PROVE TypeOK'
  <2>1. [reply |-> r, kind |-> "first"] \in [reply : Replies, kind : Kinds]
    BY DEF Kinds
  <2> QED
    <3>1. /\ row' \in [Replies -> Rows]
          /\ flights' = flights \cup {[reply |-> r, kind |-> "first"]}
          /\ waiting' = waiting \ {r}
          /\ UNCHANGED <<turn, todo, manual, crashes, arrived>>
      BY <1>1, DeliverEffect
    <3> QED
      BY <2>1, <3>1 DEF TypeOK, Rows
<1>2. ASSUME NEW r \in Replies, Due(r) PROVE TypeOK'
  <2>1. /\ row' \in [Replies -> Rows]
        /\ UNCHANGED <<turn, waiting, flights, todo, manual, crashes, arrived>>
    BY <1>2, DueEffect
  <2> QED
    BY <2>1 DEF TypeOK, Rows
<1>3. ASSUME NEW r \in Replies, Resend(r) PROVE TypeOK'
  <2>1. "manual" \in Kinds /\ [reply |-> r, kind |-> "manual"] \in [reply : Replies, kind : Kinds]
    BY DEF Kinds
  <2>2. manual' \in 0..MaxManual
    BY <1>3, DeliveryAssumption DEF Resend, TypeOK
  <2>3. row' \in [Replies -> Rows]
        /\ flights' = flights \cup {[reply |-> r, kind |-> "manual"]}
    BY <1>3, <2>1, ClaimEffect DEF Resend
  <2> QED
    BY <1>3, <2>1, <2>2, <2>3 DEF Resend, TypeOK, Rows
<1>4. ASSUME NEW r \in Replies, MarkDelivered(r) PROVE TypeOK'
  BY <1>4, MarkDeliveredEffect DEF MarkDelivered, TypeOK, Rows, Turns
<1>5. ASSUME NEW f \in flights, SendEnds(f) PROVE TypeOK'
  <2>1. arrived' \subseteq Replies
    <3>1. f.reply \in Replies
          /\ (arrived' = arrived \/ arrived' = arrived \cup {f.reply})
      BY <1>5, SendEndsEffect
    <3> QED
      BY <3>1 DEF TypeOK
  <2>2. row' \in [Replies -> Rows] /\ turn' \in [Replies -> Turns]
    BY <1>5, SendEndsEffect
  <2>3. flights' = flights \ {f} /\ UNCHANGED <<waiting, todo, manual, crashes>>
    BY <1>5, SendEndsEffect
  <2> QED
    BY <2>1, <2>2, <2>3 DEF TypeOK, Rows, Turns
<1>6. ASSUME NEW s \in Sweeps, Sweep(s) PROVE TypeOK'
  BY <1>6 DEF Sweep, TypeOK
<1>7. ASSUME NEW s \in Sweeps, NEW r \in Replies, SweepNext(s, r) PROVE TypeOK'
  <2>1. s \in Kinds /\ [reply |-> r, kind |-> s] \in [reply : Replies, kind : Kinds]
    BY DEF Kinds
  <2>2. todo' \in [Sweeps -> SUBSET Replies]
    BY <1>7 DEF SweepNext, TypeOK
  <2>3. UNCHANGED <<turn, waiting, manual, crashes, arrived>>
    BY <1>7 DEF SweepNext
  <2>4. CASE CanClaim(r, s)
    <3>1. row' \in [Replies -> Rows]
          /\ flights' = flights \cup {[reply |-> r, kind |-> s]}
      BY <1>7, <2>1, <2>4, ClaimEffect DEF SweepNext
    <3> QED
      BY <2>1, <2>2, <2>3, <3>1 DEF TypeOK, Rows
  <2>5. CASE ~CanClaim(r, s)
    BY <1>7, <2>2, <2>3, <2>5 DEF SweepNext, TypeOK
  <2> QED
    BY <2>4, <2>5
<1>8. CASE Restart
  <2>1. {f.reply : f \in flights} \subseteq Replies
    BY DEF TypeOK
  <2>2. crashes' \in 0..MaxCrashes
    <3>1. crashes < MaxCrashes /\ crashes' = crashes + 1
      BY <1>8 DEF Restart
    <3> QED
      BY <3>1, DeliveryAssumption DEF TypeOK
  <2>3. row' \in [Replies -> Rows] /\ turn' \in [Replies -> Turns]
    BY <1>8, RestartEffect
  <2>4. todo' \in [Sweeps -> SUBSET Replies]
    BY <1>8, RestartEffect
  <2> QED
    BY <1>8, <2>1, <2>2, <2>3, <2>4, RestartEffect DEF TypeOK, Rows, Turns
<1>9. CASE UNCHANGED vars
  BY <1>9 DEF vars, TypeOK
<1> QED
  BY <1>1, <1>2, <1>3, <1>4, <1>5, <1>6, <1>7, <1>8, <1>9 DEF Next

\* Rows, turns, sends and sweeps keep their types.
THEOREM TypeCorrect == Spec => []TypeOK
BY TypeInit, TypeNext, PTL DEF Spec

-----------------------------------------------------------------------------
(* One send at a time                                                      *)

\* No two sends of a reply; a send belongs to a row that says "sending", or
\* that a person confirmed meanwhile; a reply whose conversation has still to
\* call deliver has no row.
FlightInv ==
    /\ \A f, g \in flights : f.reply = g.reply => f = g
    /\ \A f \in flights : row[f.reply].state \in {"sending", "delivered"}
    /\ \A r \in Replies :
          row[r].state = "sending" => \E f \in flights : f.reply = r
    /\ \A r \in waiting : row[r].state = "none"

\* A row from which nothing is under way starts a send of its own.
LEMMA NewFlight ==
    ASSUME TypeOK, FlightInv, NEW r \in Replies, NEW k \in Kinds,
           row[r].state \in {"none", "pending", "failed", "unknown"},
           \A x \in Replies \ {r} : row'[x] = row[x],
           row'[r].state = "sending",
           flights' = flights \cup {[reply |-> r, kind |-> k]},
           waiting' \subseteq waiting \ {r}
    PROVE  FlightInv'
<1> DEFINE new == [reply |-> r, kind |-> k]
<1>1. /\ \A f \in flights : f.reply \in Replies /\ f.reply # r
      /\ waiting \subseteq Replies
  BY DEF TypeOK, FlightInv
<1>2. new.reply = r /\ flights' = flights \cup {new}
  OBVIOUS
<1> HIDE DEF new
<1> QED
  BY <1>1, <1>2 DEF FlightInv

\* Every step keeps the sends of a reply single.
LEMMA FlightNext == TypeOK /\ FlightInv /\ [Next]_vars => FlightInv'
<1> SUFFICES ASSUME TypeOK, FlightInv, [Next]_vars PROVE FlightInv'
  OBVIOUS
<1>t. waiting \subseteq Replies /\ \A f \in flights : f.reply \in Replies
  BY DEF TypeOK
<1>k. {"first", "manual"} \subseteq Kinds /\ Sweeps \subseteq Kinds
  BY DEF Kinds
<1>1. ASSUME NEW r \in Replies, Deliver(r) PROVE FlightInv'
  <2>1. row[r].state = "none"
    BY <1>1, DeliverEffect DEF FlightInv
  <2> QED
    BY <1>1, <1>k, <2>1, DeliverEffect, NewFlight
<1>c. ASSUME NEW r \in Replies, NEW k \in Kinds, CanClaim(r, k), Claim(r, k),
             UNCHANGED waiting
      PROVE  FlightInv'
  <2>1. r \notin waiting
    BY <1>c, ClaimEffect DEF FlightInv
  <2> QED
    BY <1>c, <2>1, ClaimEffect, NewFlight
<1>2. ASSUME NEW r \in Replies, Due(r) PROVE FlightInv'
  BY <1>2, <1>t, DueEffect DEF FlightInv
<1>3. ASSUME NEW r \in Replies, Resend(r) PROVE FlightInv'
  BY <1>3, <1>c, <1>k DEF Resend
<1>4. ASSUME NEW r \in Replies, MarkDelivered(r) PROVE FlightInv'
  <2>1. UNCHANGED <<flights, waiting>>
    BY <1>4 DEF MarkDelivered
  <2> QED
    <3>1. /\ \A x \in Replies \ {r} : row'[x] = row[x]
          /\ row'[r].state = "delivered" /\ row[r].state # "none"
      BY <1>4, MarkDeliveredEffect
    <3> QED
      BY <1>t, <2>1, <3>1 DEF FlightInv
<1>5. ASSUME NEW f \in flights, SendEnds(f) PROVE FlightInv'
  <2>1. /\ f.reply \in Replies /\ row'[f.reply].state \notin {"sending", "none"}
        /\ \A x \in Replies \ {f.reply} : row'[x] = row[x]
        /\ flights' = flights \ {f} /\ waiting' = waiting
    BY <1>5, SendEndsEffect
  <2>2. f.reply \notin waiting
    BY DEF FlightInv
  <2> QED
    BY <1>t, <2>1, <2>2 DEF FlightInv
<1>6. ASSUME NEW s \in Sweeps, Sweep(s) PROVE FlightInv'
  BY <1>6 DEF Sweep, FlightInv
<1>7. ASSUME NEW s \in Sweeps, NEW r \in Replies, SweepNext(s, r) PROVE FlightInv'
  <2>1. CASE CanClaim(r, s)
    BY <1>7, <1>c, <1>k, <2>1 DEF SweepNext
  <2>2. CASE ~CanClaim(r, s)
    BY <1>7, <2>2 DEF SweepNext, FlightInv
  <2> QED
    BY <2>1, <2>2
<1>8. CASE Restart
  BY <1>8, RestartEffect DEF FlightInv
<1>9. CASE UNCHANGED vars
  BY <1>9 DEF vars, FlightInv
<1> QED
  BY <1>1, <1>2, <1>3, <1>4, <1>5, <1>6, <1>7, <1>8, <1>9 DEF Next

\* Nothing is under way at the start.
LEMMA FlightInit == Init => FlightInv
<1> SUFFICES ASSUME Init PROVE FlightInv
  OBVIOUS
<1>1. \A r \in Replies : row[r].state = "none"
  BY DEF Init, Row
<1> QED
  BY <1>1 DEF Init, FlightInv

\* Uniqueness, in the words of the property.
LEMMA FlightsSingle == FlightInv => SingleFlight
<1> SUFFICES ASSUME FlightInv, NEW r \in Replies
             PROVE  LET n == Cardinality({f \in flights : f.reply = r})
                    IN  n <= 1 /\ (row[r].state = "sending" => n = 1)
  BY DEF SingleFlight
<1>1. CASE \E f \in flights : f.reply = r
  <2>1. PICK f \in flights : f.reply = r
    BY <1>1
  <2>2. {g \in flights : g.reply = r} = {f}
    BY <2>1 DEF FlightInv
  <2>3. Cardinality({f}) = 1
    BY FS_Singleton
  <2> QED
    BY <2>2, <2>3
<1>2. CASE \A f \in flights : f.reply # r
  <2>1. {g \in flights : g.reply = r} = {}
    BY <1>2
  <2>2. row[r].state # "sending"
    BY <1>2 DEF FlightInv
  <2>3. Cardinality({}) = 0
    BY FS_EmptySet
  <2> QED
    BY <2>1, <2>2, <2>3
<1> QED
  BY <1>1, <1>2

\* A reply has at most one send under way, however many sweeps, timers,
\* persons and restarts there are.
THEOREM AlwaysSingleFlight == Spec => []SingleFlight
<1>1. TypeOK /\ FlightInv /\ [Next]_vars => (TypeOK /\ FlightInv)'
  BY TypeNext, FlightNext
<1> QED
  BY <1>1, TypeInit, FlightInit, FlightsSingle, PTL DEF Spec

-----------------------------------------------------------------------------
(* Attempts, arrivals and turns                                            *)

\* A planned retry is one of a reply that cannot have arrived and has a wait
\* left; neither can the reply of an automatic send under way, or one that was
\* never sent; the attempts are within the waits and what a person asked for;
\* and the turn agrees with the row.
AttemptInv ==
    /\ \A r \in Replies :
          row[r].retry => /\ row[r].state = "failed" /\ r \notin arrived
                          /\ row[r].attempts <= Backoffs
    /\ \A r \in Replies : row[r].state = "none" => r \notin arrived
    /\ \A f \in flights : f.kind # "manual" => f.reply \notin arrived
    /\ AttemptsBounded
    /\ MarkerAgrees

\* A claim by a sweep is a planned retry, one by a person raises the bound.
LEMMA NewAttempt ==
    ASSUME TypeOK, FlightInv, AttemptInv, NEW r \in Replies, NEW k \in Kinds,
           row[r].state \in {"none", "pending", "failed", "unknown"},
           k # "manual" => row[r].attempts <= Backoffs /\ r \notin arrived,
           \A x \in Replies \ {r} : row'[x] = row[x],
           row'[r].state = "sending", row'[r].retry = FALSE,
           row'[r].attempts = row[r].attempts + 1,
           flights' = flights \cup {[reply |-> r, kind |-> k]},
           manual' = IF k = "manual" THEN manual + 1 ELSE manual,
           UNCHANGED <<arrived, turn>>
    PROVE  AttemptInv'
<1> DEFINE new == [reply |-> r, kind |-> k]
<1>1. new.reply = r /\ new.kind = k /\ flights' = flights \cup {new}
  OBVIOUS
<1>2. /\ \A x \in Replies : row[x].attempts \in Nat
      /\ manual \in Nat /\ manual' \in Nat /\ manual' >= manual /\ Backoffs \in Nat
  BY DeliveryAssumption DEF TypeOK
<1> HIDE DEF new
<1>3. AttemptsBounded'
  <2>1. row[r].attempts + 1 <= Backoffs + 1 + manual'
    BY <1>2 DEF AttemptInv, AttemptsBounded
  <2>2. \A x \in Replies : row[x].attempts <= Backoffs + 1 + manual'
    BY <1>2 DEF AttemptInv, AttemptsBounded
  <2> QED
    BY <2>1, <2>2 DEF AttemptsBounded
<1>4. MarkerAgrees'
  BY DEF AttemptInv, MarkerAgrees
<1> QED
  BY <1>1, <1>3, <1>4 DEF AttemptInv

\* Every step keeps the attempts within bounds and the turns in agreement.
LEMMA AttemptNext ==
    TypeOK /\ FlightInv /\ AttemptInv /\ [Next]_vars => AttemptInv'
<1> SUFFICES ASSUME TypeOK, FlightInv, AttemptInv, [Next]_vars PROVE AttemptInv'
  OBVIOUS
<1>t. /\ \A f \in flights : f.reply \in Replies
      /\ \A x \in Replies : row[x].attempts \in Nat
      /\ manual \in Nat /\ Backoffs \in Nat
  BY DeliveryAssumption DEF TypeOK
<1>k. {"first", "manual"} \subseteq Kinds /\ Sweeps \subseteq Kinds
      /\ "manual" \notin Sweeps
  BY DeliveryAssumption DEF Kinds
<1>1. ASSUME NEW r \in Replies, Deliver(r) PROVE AttemptInv'
  <2>1. row[r].state = "none" /\ r \notin arrived
    BY <1>1 DEF Deliver, FlightInv, AttemptInv
  <2>2. /\ \A x \in Replies \ {r} : row'[x] = row[x]
        /\ row'[r].state = "sending" /\ row'[r].retry = FALSE /\ row'[r].attempts = 1
        /\ flights' = flights \cup {[reply |-> r, kind |-> "first"]}
        /\ UNCHANGED <<manual, arrived, turn>>
    BY <1>1, DeliverEffect
  <2>3. AttemptsBounded' /\ MarkerAgrees'
    BY <1>t, <2>2 DEF AttemptInv, AttemptsBounded, MarkerAgrees
  <2>4. \A f \in flights' : f.kind # "manual" => f.reply \notin arrived'
    BY <2>1, <2>2 DEF AttemptInv
  <2> QED
    BY <2>2, <2>3, <2>4 DEF AttemptInv
<1>2. ASSUME NEW r \in Replies, Due(r) PROVE AttemptInv'
  BY <1>2, <1>t, DueEffect DEF AttemptInv, AttemptsBounded, MarkerAgrees
<1>3. ASSUME NEW r \in Replies, Resend(r) PROVE AttemptInv'
  <2>1. /\ CanClaim(r, "manual") /\ Claim(r, "manual") /\ manual' = manual + 1
        /\ UNCHANGED <<arrived, turn>>
    BY <1>3 DEF Resend
  <2> QED
    BY <1>k, <2>1, ClaimEffect, NewAttempt
<1>4. ASSUME NEW r \in Replies, MarkDelivered(r) PROVE AttemptInv'
  <2>1. /\ \A x \in Replies \ {r} : row'[x] = row[x] /\ turn'[x] = turn[x]
        /\ row'[r].state = "delivered" /\ row'[r].retry = FALSE
        /\ row'[r].attempts = row[r].attempts /\ turn'[r] # "undelivered"
        /\ UNCHANGED <<flights, manual, arrived>>
    BY <1>4, MarkDeliveredEffect DEF MarkDelivered
  <2> QED
    BY <1>t, <2>1 DEF AttemptInv, AttemptsBounded, MarkerAgrees
<1>5. ASSUME NEW f \in flights, SendEnds(f) PROVE AttemptInv'
  <2> DEFINE q == f.reply
  <2>1. /\ q \in Replies
        /\ \A x \in Replies \ {q} : row'[x] = row[x] /\ turn'[x] = turn[x]
        /\ row'[q].attempts = row[q].attempts
        /\ \/ /\ row'[q].state = "delivered" /\ row'[q].retry = FALSE
              /\ turn'[q] # "undelivered"
           \/ /\ row'[q].state = "failed" /\ row'[q].retry = TRUE
              /\ f.kind # "manual" /\ row[q].attempts <= Backoffs
              /\ arrived' = arrived
           \/ /\ row'[q].state \in {"failed", "unknown"} /\ row'[q].retry = FALSE
              /\ turn'[q] # "succeeded"
        /\ arrived' = arrived \/ arrived' = arrived \cup {q}
        /\ flights' = flights \ {f} /\ manual' = manual
    BY <1>5, SendEndsEffect
  <2>2. \A g \in flights' : g \in flights /\ g.reply # q
    BY <2>1 DEF FlightInv
  <2>3. AttemptsBounded'
    BY <1>t, <2>1 DEF AttemptInv, AttemptsBounded
  <2>4. MarkerAgrees'
    BY <2>1 DEF AttemptInv, MarkerAgrees
  <2>5. \A g \in flights' : g.kind # "manual" => g.reply \notin arrived'
    BY <2>1, <2>2 DEF AttemptInv
  <2>6. \A x \in Replies : row'[x].retry =>
           row'[x].state = "failed" /\ x \notin arrived' /\ row'[x].attempts <= Backoffs
    BY <2>1 DEF AttemptInv
  <2>7. \A x \in Replies : row'[x].state = "none" => x \notin arrived'
    BY <2>1 DEF AttemptInv
  <2> QED
    BY <2>3, <2>4, <2>5, <2>6, <2>7 DEF AttemptInv
<1>6. ASSUME NEW s \in Sweeps, Sweep(s) PROVE AttemptInv'
  BY <1>6 DEF Sweep, AttemptInv, AttemptsBounded, MarkerAgrees
<1>7. ASSUME NEW s \in Sweeps, NEW r \in Replies, SweepNext(s, r) PROVE AttemptInv'
  <2>1. CASE CanClaim(r, s)
    <3>1. Claim(r, s) /\ UNCHANGED <<manual, arrived, turn>> /\ s # "manual"
      BY <1>7, <1>k, <2>1 DEF SweepNext
    <3>2. row[r].attempts <= Backoffs /\ r \notin arrived
      BY <1>k, <2>1, <3>1, ClaimEffect DEF AttemptInv
    <3> QED
      BY <1>k, <2>1, <3>1, <3>2, ClaimEffect, NewAttempt
  <2>2. CASE ~CanClaim(r, s)
    BY <1>7, <2>2 DEF SweepNext, AttemptInv, AttemptsBounded, MarkerAgrees
  <2> QED
    BY <2>1, <2>2
<1>8. CASE Restart
  <2>1. /\ \A x \in Replies :
              IF row[x].state = "sending"
              THEN /\ row'[x].state = "unknown" /\ row'[x].retry = FALSE
                   /\ row'[x].attempts = row[x].attempts
                   /\ turn'[x] # "succeeded"
              ELSE row'[x] = row[x] /\ turn'[x] = turn[x]
        /\ arrived' = arrived \cup {f.reply : f \in flights}
        /\ flights' = {} /\ manual' = manual
    BY <1>8, RestartEffect
  <2>2. \A x \in Replies : x \in {f.reply : f \in flights}
                             => row[x].state \in {"sending", "delivered"}
    BY DEF FlightInv
  <2>3. AttemptsBounded'
    BY <2>1 DEF AttemptInv, AttemptsBounded
  <2>4. MarkerAgrees'
    BY <2>1 DEF AttemptInv, MarkerAgrees
  <2>5. \A x \in Replies : row'[x].retry =>
           row'[x].state = "failed" /\ x \notin arrived' /\ row'[x].attempts <= Backoffs
    BY <2>1, <2>2 DEF AttemptInv
  <2>6. \A x \in Replies : row'[x].state = "none" => x \notin arrived'
    BY <2>1, <2>2 DEF AttemptInv
  <2> QED
    BY <2>1, <2>3, <2>4, <2>5, <2>6 DEF AttemptInv
<1>9. CASE UNCHANGED vars
  BY <1>9 DEF vars, AttemptInv, AttemptsBounded, MarkerAgrees
<1> QED
  BY <1>1, <1>2, <1>3, <1>4, <1>5, <1>6, <1>7, <1>8, <1>9 DEF Next

\* At the start nothing was attempted.
LEMMA AttemptInit == Init => AttemptInv
<1> SUFFICES ASSUME Init PROVE AttemptInv
  OBVIOUS
<1>1. \A r \in Replies : /\ row[r].state = "none" /\ row[r].retry = FALSE
                         /\ row[r].attempts = 0
  BY DEF Init, Row
<1>2. manual = 0 /\ arrived = {} /\ flights = {} /\ Backoffs \in Nat
  BY DeliveryAssumption DEF Init
<1> QED
  BY <1>1, <1>2 DEF AttemptInv, AttemptsBounded, MarkerAgrees

DeliveryInv == TypeOK /\ FlightInv /\ AttemptInv

\* The invariant that the theorems below share.
LEMMA DeliveryAlways == Spec => []DeliveryInv
<1>1. DeliveryInv /\ [Next]_vars => DeliveryInv'
  BY TypeNext, FlightNext, AttemptNext DEF DeliveryInv
<1>2. Init => DeliveryInv
  BY TypeInit, FlightInit, AttemptInit DEF DeliveryInv
<1> QED
  BY <1>1, <1>2, PTL DEF Spec

\* The turn of a reply that came to rest says whether the reply was delivered.
THEOREM MarkerAlwaysAgrees == Spec => []MarkerAgrees
<1>1. DeliveryInv => MarkerAgrees
  BY DEF DeliveryInv, AttemptInv
<1> QED
  BY <1>1, DeliveryAlways, PTL

\* No list that a sweep still holds gives a reply more attempts than its waits
\* and the person allow.
THEOREM AttemptsAlwaysBounded == Spec => []AttemptsBounded
<1>1. DeliveryInv => AttemptsBounded
  BY DEF DeliveryInv, AttemptInv
<1> QED
  BY <1>1, DeliveryAlways, PTL

\* A send that starts by itself is of a reply that cannot have arrived.
LEMMA AutomaticSend ==
    ASSUME DeliveryInv, [Next]_vars, NEW f \in flights' \ flights, f.kind # "manual"
    PROVE  f.reply \notin arrived
<1> USE DEF DeliveryInv
<1>k. {"first", "manual"} \subseteq Kinds /\ Sweeps \subseteq Kinds
  BY DEF Kinds
<1>1. ASSUME NEW r \in Replies, Deliver(r) PROVE f.reply \notin arrived
  <2>1. f = [reply |-> r, kind |-> "first"] /\ row[r].state = "none"
    BY <1>1 DEF Deliver, FlightInv
  <2> QED
    BY <2>1 DEF AttemptInv
<1>2. ASSUME NEW s \in Sweeps, NEW r \in Replies, SweepNext(s, r)
      PROVE  f.reply \notin arrived
  <2>1. CanClaim(r, s) /\ Claim(r, s)
    BY <1>2 DEF SweepNext
  <2>2. f = [reply |-> r, kind |-> s] /\ row[r].retry
    BY <2>1 DEF Claim, CanClaim
  <2> QED
    BY <2>2 DEF AttemptInv
<1>3. ASSUME NEW r \in Replies, Resend(r) PROVE FALSE
  <2>1. f = [reply |-> r, kind |-> "manual"]
    BY <1>3 DEF Resend, Claim
  <2> QED
    BY <2>1
<1>4. ASSUME NEW r \in Replies PROVE ~Due(r) /\ ~MarkDelivered(r)
  BY DEF Due, MarkDelivered
<1>5. ASSUME NEW g \in flights PROVE ~SendEnds(g)
  BY DEF SendEnds
<1>6. ASSUME NEW s \in Sweeps PROVE ~Sweep(s)
  BY DEF Sweep
<1>7. ~Restart /\ ~UNCHANGED vars
  BY DEF Restart, vars
<1> QED
  BY <1>1, <1>2, <1>3, <1>4, <1>5, <1>6, <1>7 DEF Next

\* A reply that may have reached the person is never sent again unless a
\* person asks for it.
THEOREM NeverResent == Spec => NeverResentUnasked
<1>1. DeliveryInv /\ [Next]_vars
        => [\A f \in flights' \ flights :
               f.kind # "manual" => f.reply \notin arrived]_vars
  BY AutomaticSend
<1> QED
  BY <1>1, DeliveryAlways, PTL DEF Spec, NeverResentUnasked
=============================================================================
