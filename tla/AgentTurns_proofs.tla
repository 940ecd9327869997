-------------------------- MODULE AgentTurns_proofs --------------------------
(***************************************************************************)
(* An ask-first tool runs only with arguments that a person approved (for  *)
(* that tool or another), no approval is left pending without a            *)
(* conversation that will see to it, and what has failed, was cancelled or *)
(* was decided stays so: for any number of turns, tools, calls, approvals  *)
(* and restarts, and although the first turn is not serialised with the    *)
(* others.                                                                 *)
(***************************************************************************)
EXTENDS AgentTurns, SequenceTheorems, FiniteSetTheorems,
        WellFoundedInduction, TLAPS

RowStates == {"pending", "approved", "denied", "expired"}
Rows == [turn : Turns, tool : Tools, payload : Payloads, due : BOOLEAN,
         status : RowStates]
Convs(n) == [at : Stages, tool : Tools \cup {None}, payload : Payloads \cup {None},
             ask : 0..n, outcome : Outcomes \cup {None}, aborted : BOOLEAN]

\* The stages of a conversation that has a row for its call, and those in
\* which it is still going to look at it.
AtRow == {"requested", "parked", "woken", "tool"}
Seeing == {"requested", "parked", "woken"}

\* A conversation c agrees with the rows rs: the row of its call is for the
\* arguments of that call, it waits only on a pending row, the answer it was
\* woken with is what the row says, and it runs the tool only by an approved
\* row.
RowOK(c, rs) ==
    c.at \in AtRow =>
        /\ c.ask \in DOMAIN rs
        /\ rs[c.ask].payload = c.payload
        /\ c.at = "parked" => rs[c.ask].status = "pending"
        /\ c.at = "woken" => \/ c.outcome = "aborted"
                             \/ /\ c.outcome \in {"approved", "denied", "expired"}
                                /\ rs[c.ask].status = c.outcome
        /\ c.at = "tool" => rs[c.ask].status = "approved"

\* Only the newest row may be pending, and then the conversation c of the turn
\* that raised it is going to see to it.
RaisedOK(cs, rs) ==
    \A a \in DOMAIN rs :
        rs[a].status = "pending" =>
            /\ a = Len(rs)
            /\ cs[rs[a].turn].ask = a
            /\ cs[rs[a].turn].at \in Seeing

\* Conversations and rows together.
Agree(cs, rs) ==
    /\ rs \in Seq(Rows)
    /\ cs \in [Turns -> Convs(Len(rs))]
    /\ \A t \in Turns : RowOK(cs[t], rs)
    /\ RaisedOK(cs, rs)

\* The status of a turn follows the progress of its conversation.
TurnOK(c, s) ==
    /\ c.at \in {"idle", "queued", "starting"} => s = "none"
    /\ c.at \in {"thinking", "requested", "tool"} => s = "running"
    /\ c.at \in {"parked", "woken"} => s = "waiting"
    /\ c.at = "ending" => s \in ActiveTurn

Quiet == {"idle", "queued", "over"}

\* A turn other than the first is at work only at the head of the chain.
ChainServes ==
    \A t \in Turns : t # Opener /\ conv[t].at \notin Quiet =>
        chain # << >> /\ Head(chain) = t

\* The rest of the types.
RowTypes ==
    /\ session \in {"none", "open"} \cup ActiveTurn
    /\ turn \in [Turns -> {"none"} \cup ActiveTurn \cup TerminalTurn]
    /\ executed \subseteq Payloads
    /\ enabled \in BOOLEAN
    /\ chain \in Seq(Turns)
    /\ registered \in Turns \cup {None}
    /\ calls \in 0..MaxCalls
    /\ crashes \in 0..MaxCrashes
    /\ switches \in 0..MaxSwitches

TurnsInv ==
    /\ RowTypes
    /\ Agree(conv, approvals)
    /\ \A t \in Turns : TurnOK(conv[t], turn[t])
    /\ ChainServes
    /\ ApprovedStaysApproved

\* The typing invariant is its two halves.
LEMMA TypeSplit ==
    TypeOK <=> /\ RowTypes
               /\ approvals \in Seq(Rows)
               /\ conv \in [Turns -> Convs(Len(approvals))]
BY DEF TypeOK, RowTypes, Rows, RowStates, Convs

\* The fields of a row.
LEMMA RowFields ==
    ASSUME NEW rs \in Seq(Rows), NEW a \in DOMAIN rs
    PROVE  /\ rs[a].turn \in Turns
           /\ rs[a].payload \in Payloads
           /\ rs[a].status \in RowStates
<1>1. rs[a] \in Rows
  OBVIOUS
<1> QED
  BY <1>1 DEF Rows

-----------------------------------------------------------------------------
(* Deciding rows and waking their conversations                            *)

\* A decided row keeps its turn and its payload; only pending rows are decided.
LEMMA DecidedRows ==
    ASSUME approvals \in Seq(Rows), NEW A, NEW s \in RowStates
    PROVE  /\ Decided(A, s) \in Seq(Rows)
           /\ Len(Decided(A, s)) = Len(approvals)
           /\ DOMAIN Decided(A, s) = DOMAIN approvals
           /\ \A a \in DOMAIN approvals :
                 /\ Decided(A, s)[a].turn = approvals[a].turn
                 /\ Decided(A, s)[a].payload = approvals[a].payload
                 /\ Decided(A, s)[a].status =
                       IF a \in A /\ approvals[a].status = "pending"
                       THEN s ELSE approvals[a].status
<1> DEFINE n == Len(approvals)
           rs == Decided(A, s)
<1>1. n \in Nat /\ DOMAIN approvals = 1..n /\ \A a \in 1..n : approvals[a] \in Rows
  OBVIOUS
<1>2. rs = [a \in 1..n |->
               IF a \in A /\ approvals[a].status = "pending"
               THEN [approvals[a] EXCEPT !.status = s, !.due = FALSE]
               ELSE approvals[a]]
  BY <1>1 DEF Decided, Pending
<1> HIDE DEF n, rs
<1>3. \A a \in 1..n :
         /\ rs[a] \in Rows
         /\ rs[a].turn = approvals[a].turn
         /\ rs[a].payload = approvals[a].payload
         /\ rs[a].status = IF a \in A /\ approvals[a].status = "pending"
                           THEN s ELSE approvals[a].status
  BY <1>1, <1>2 DEF Rows
<1>4. rs \in [1..n -> Rows]
  BY <1>2, <1>3
<1>5. rs \in Seq(Rows) /\ Len(rs) = n /\ DOMAIN rs = 1..n
  BY <1>1, <1>4
<1> QED
  BY <1>1, <1>3, <1>5 DEF n, rs

\* The broker wakes the conversations that wait on a row, with its answer.
LEMMA SettledConvs ==
    ASSUME NEW n \in Nat, conv \in [Turns -> Convs(n)], NEW A,
           NEW s \in {"approved", "denied", "expired"}
    PROVE  /\ Settled(A, s) \in [Turns -> Convs(n)]
           /\ \A t \in Turns :
                 LET c == Settled(A, s)[t]
                 IN  /\ c.payload = conv[t].payload
                     /\ c.ask = conv[t].ask
                     /\ c.aborted = conv[t].aborted
                     /\ IF conv[t].at = "parked" /\ conv[t].ask \in A
                        THEN c.at = "woken" /\ c.outcome = s
                        ELSE c = conv[t]
<1> DEFINE cs == Settled(A, s)
<1>1. \A t \in Turns :
         /\ conv[t] \in Convs(n)
         /\ cs[t] = IF conv[t].at = "parked" /\ conv[t].ask \in A
                    THEN [conv[t] EXCEPT !.at = "woken", !.outcome = s]
                    ELSE conv[t]
  BY DEF Settled
<1>2. ASSUME NEW t \in Turns
      PROVE  /\ cs[t] \in Convs(n)
             /\ cs[t].payload = conv[t].payload
             /\ cs[t].ask = conv[t].ask
             /\ cs[t].aborted = conv[t].aborted
             /\ IF conv[t].at = "parked" /\ conv[t].ask \in A
                THEN cs[t].at = "woken" /\ cs[t].outcome = s
                ELSE cs[t] = conv[t]
  <2> DEFINE c == conv[t]
  <2>1. c \in Convs(n)
    BY <1>1
  <2>2. CASE c.at = "parked" /\ c.ask \in A
    <3>1. cs[t] = [c EXCEPT !.at = "woken", !.outcome = s]
      BY <1>1, <2>2
    <3> HIDE DEF c, cs
    <3>2. /\ cs[t] \in Convs(n)
          /\ cs[t].payload = c.payload /\ cs[t].ask = c.ask
          /\ cs[t].aborted = c.aborted
          /\ cs[t].at = "woken" /\ cs[t].outcome = s
      BY <2>1, <3>1 DEF Convs, Stages, Outcomes
    <3> QED
      BY <2>2, <3>2 DEF c
  <2>3. CASE ~ (c.at = "parked" /\ c.ask \in A)
    <3>1. cs[t] = c
      BY <1>1, <2>3
    <3> QED
      BY <2>1, <2>3, <3>1
  <2> QED
    BY <2>2, <2>3
<1>3. cs \in [Turns -> Convs(n)]
  <2>1. cs = [t \in Turns |-> cs[t]]
    BY DEF Settled
  <2> HIDE DEF cs
  <2> QED
    BY <1>2, <2>1
<1> QED
  BY <1>2, <1>3

\* Deciding pending rows and waking the conversations that wait on them keeps
\* the two in agreement.
LEMMA SettlingAgrees ==
    ASSUME Agree(conv, approvals), NEW A \in SUBSET Pending,
           NEW s \in {"approved", "denied", "expired"}
    PROVE  Agree(Settled(A, s), Decided(A, s))
<1> DEFINE rs == Decided(A, s)
           cs == Settled(A, s)
           n  == Len(approvals)
<1>1. /\ approvals \in Seq(Rows) /\ conv \in [Turns -> Convs(n)] /\ n \in Nat
      /\ \A t \in Turns : RowOK(conv[t], approvals)
      /\ RaisedOK(conv, approvals)
  BY DEF Agree
<1>2. s \in RowStates /\ \A a \in A : approvals[a].status = "pending"
  BY DEF RowStates, Pending
<1>3. /\ rs \in Seq(Rows) /\ Len(rs) = n /\ DOMAIN rs = DOMAIN approvals
      /\ \A a \in DOMAIN approvals :
            /\ rs[a].turn = approvals[a].turn
            /\ rs[a].payload = approvals[a].payload
            /\ rs[a].status = IF a \in A THEN s ELSE approvals[a].status
  BY <1>1, <1>2, DecidedRows
<1>4. /\ cs \in [Turns -> Convs(n)]
      /\ \A t \in Turns :
            /\ cs[t].payload = conv[t].payload
            /\ cs[t].ask = conv[t].ask
            /\ IF conv[t].at = "parked" /\ conv[t].ask \in A
               THEN cs[t].at = "woken" /\ cs[t].outcome = s
               ELSE cs[t] = conv[t]
  BY <1>1, SettledConvs
<1> HIDE DEF rs, cs, n
<1>5. ASSUME NEW t \in Turns
      PROVE  RowOK(cs[t], rs)
  <2>1. RowOK(conv[t], approvals)
    BY <1>1
  <2>2. CASE conv[t].at = "parked" /\ conv[t].ask \in A
    BY <1>3, <1>4, <2>1, <2>2 DEF RowOK, AtRow
  <2>3. CASE ~ (conv[t].at = "parked" /\ conv[t].ask \in A)
    <3>1. cs[t] = conv[t]
      BY <1>4, <2>3
    <3>2. CASE conv[t].at \notin AtRow
      BY <3>1, <3>2 DEF RowOK
    <3>3. CASE conv[t].at \in AtRow
      <4>1. conv[t].ask \in DOMAIN approvals
        BY <2>1, <3>3 DEF RowOK
      <4> QED
        BY <1>2, <1>3, <2>1, <2>3, <3>1, <3>3, <4>1 DEF RowOK, AtRow
    <3> QED
      BY <3>2, <3>3
  <2> QED
    BY <2>2, <2>3
<1>6. RaisedOK(cs, rs)
  <2> SUFFICES ASSUME NEW a \in DOMAIN rs, rs[a].status = "pending"
               PROVE  /\ a = Len(rs)
                      /\ cs[rs[a].turn].ask = a
                      /\ cs[rs[a].turn].at \in Seeing
    BY DEF RaisedOK
  <2>1. a \in DOMAIN approvals /\ approvals[a].status = "pending"
    BY <1>2, <1>3
  <2>2. /\ a = n /\ conv[approvals[a].turn].ask = a
        /\ conv[approvals[a].turn].at \in Seeing
    BY <1>1, <2>1 DEF RaisedOK, n
  <2>3. rs[a].turn = approvals[a].turn /\ approvals[a].turn \in Turns
    BY <1>1, <1>3, <2>1, RowFields
  <2> QED
    BY <1>3, <1>4, <2>2, <2>3 DEF Seeing
<1>7. Agree(cs, rs)
  BY <1>3, <1>4, <1>5, <1>6 DEF Agree
<1> QED
  BY <1>7 DEF cs, rs

\* A step of one conversation that leaves the rows alone.
LEMMA OneConversation ==
    ASSUME NEW cs, NEW rs, Agree(cs, rs), NEW t \in Turns,
           NEW c \in Convs(Len(rs)), RowOK(c, rs),
           \A a \in DOMAIN rs :
              rs[a].status = "pending" /\ rs[a].turn = t =>
                 c.ask = a /\ c.at \in Seeing
    PROVE  Agree([cs EXCEPT ![t] = c], rs)
<1> DEFINE new == [cs EXCEPT ![t] = c]
<1>1. /\ rs \in Seq(Rows) /\ cs \in [Turns -> Convs(Len(rs))]
      /\ \A x \in Turns : RowOK(cs[x], rs)
      /\ RaisedOK(cs, rs)
  BY DEF Agree
<1>2. /\ new \in [Turns -> Convs(Len(rs))] /\ new[t] = c
      /\ \A x \in Turns \ {t} : new[x] = cs[x]
  BY <1>1
<1>3. \A a \in DOMAIN rs : rs[a].turn \in Turns
  BY <1>1, RowFields
<1> HIDE DEF new
<1>4. \A x \in Turns : RowOK(new[x], rs)
  BY <1>1, <1>2
<1>5. RaisedOK(new, rs)
  BY <1>1, <1>2, <1>3 DEF RaisedOK
<1> QED
  BY <1>1, <1>2, <1>4, <1>5 DEF Agree, new

\* Nobody sees to a pending row for a conversation that is not at one.
LEMMA NotAwaiting ==
    ASSUME NEW cs, NEW rs, Agree(cs, rs), NEW t \in Turns,
           cs[t].at \notin Seeing
    PROVE  \A a \in DOMAIN rs : ~ (rs[a].status = "pending" /\ rs[a].turn = t)
BY DEF Agree, RaisedOK

-----------------------------------------------------------------------------
(* What most steps leave alone                                             *)

\* Where approved rows stay approved and no row is added, what was approved
\* for the session is found.
LEMMA ApprovedKept ==
    ASSUME ApprovedStaysApproved, executed' = executed,
           DOMAIN approvals' = DOMAIN approvals,
           \A a \in DOMAIN approvals :
              /\ approvals'[a].payload = approvals[a].payload
              /\ approvals[a].status = "approved" =>
                    approvals'[a].status = "approved"
    PROVE  ApprovedStaysApproved'
BY DEF ApprovedStaysApproved

\* The turns outside T keep their status, and a wait that is answered keeps
\* its turn waiting.
LEMMA OthersKept ==
    ASSUME TurnsInv, NEW T \in SUBSET Turns,
           \A x \in Turns \ T :
              /\ turn'[x] = turn[x]
              /\ \/ conv'[x].at = conv[x].at
                 \/ conv[x].at = "parked" /\ conv'[x].at = "woken",
           \A x \in T : TurnOK(conv'[x], turn'[x])
    PROVE  \A x \in Turns : TurnOK(conv'[x], turn'[x])
<1> SUFFICES ASSUME NEW x \in Turns \ T
             PROVE  TurnOK(conv'[x], turn'[x])
  OBVIOUS
<1>1. TurnOK(conv[x], turn[x])
  BY DEF TurnsInv
<1> QED
  BY <1>1 DEF TurnOK

\* No turn starts to work, and the chain stays.
LEMMA ServedKept ==
    ASSUME TurnsInv, chain' = chain,
           \A x \in Turns :
              \/ conv'[x].at = conv[x].at
              \/ conv[x].at \notin Quiet
              \/ conv'[x].at \in Quiet
    PROVE  ChainServes'
BY DEF TurnsInv, ChainServes

\* A step of the conversation of t that leaves the rows alone.
LEMMA OwnStep ==
    ASSUME TurnsInv, NEW t \in Turns, NEW c \in Convs(Len(approvals)),
           conv' = [conv EXCEPT ![t] = c],
           approvals' = approvals, executed' = executed,
           \A x \in Turns \ {t} : turn'[x] = turn[x],
           RowTypes', ChainServes',
           RowOK(c, approvals),
           \A a \in DOMAIN approvals :
              approvals[a].status = "pending" /\ approvals[a].turn = t =>
                 c.ask = a /\ c.at \in Seeing,
           TurnOK(c, turn'[t])
    PROVE  TurnsInv'
<1>1. Agree(conv, approvals) /\ ApprovedStaysApproved
  BY DEF TurnsInv
<1>2. /\ conv'[t] = c
      /\ \A x \in Turns \ {t} : conv'[x] = conv[x]
  BY <1>1 DEF Agree
<1>3. Agree(conv', approvals')
  BY <1>1, OneConversation
<1>4. \A x \in Turns : TurnOK(conv'[x], turn'[x])
  <2>1. {t} \in SUBSET Turns /\ \A x \in {t} : TurnOK(conv'[x], turn'[x])
    BY <1>2
  <2>2. \A x \in Turns \ {t} : turn'[x] = turn[x] /\ conv'[x].at = conv[x].at
    BY <1>2
  <2> QED
    BY <2>1, <2>2, OthersKept
<1>5. ApprovedStaysApproved'
  BY <1>1 DEF ApprovedStaysApproved
<1> QED
  BY <1>3, <1>4, <1>5 DEF TurnsInv, Agree, RaisedOK

\* The conversation of t leaves its row, or has none, and stays at work.
LEMMA WorkStep ==
    ASSUME TurnsInv, NEW t \in Turns, NEW c \in Convs(Len(approvals)),
           conv' = [conv EXCEPT ![t] = c],
           approvals' = approvals, executed' = executed, chain' = chain,
           \A x \in Turns \ {t} : turn'[x] = turn[x],
           RowTypes',
           conv[t].at \notin Quiet \cup Seeing, c.at \notin AtRow,
           TurnOK(c, turn'[t])
    PROVE  TurnsInv'
<1>1. Agree(conv, approvals)
  BY DEF TurnsInv
<1>2. /\ conv'[t] = c
      /\ \A x \in Turns \ {t} : conv'[x] = conv[x]
  BY <1>1 DEF Agree
<1>3. ChainServes'
  BY <1>2, ServedKept
<1>4. \A a \in DOMAIN approvals :
         ~ (approvals[a].status = "pending" /\ approvals[a].turn = t)
  BY <1>1, NotAwaiting
<1>5. RowOK(c, approvals)
  BY DEF RowOK
<1> QED
  BY <1>3, <1>4, <1>5, OwnStep

\* The conversation of a turn, as the invariant knows it.
LEMMA ConvFields ==
    ASSUME TurnsInv, NEW t \in Turns
    PROVE  /\ Len(approvals) \in Nat
           /\ conv[t] \in Convs(Len(approvals))
           /\ RowOK(conv[t], approvals)
           /\ TurnOK(conv[t], turn[t])
BY DEF TurnsInv, Agree

-----------------------------------------------------------------------------
(* Sending, starting, stopping and leaving                                 *)

\* The session opens: its first turn is not in the chain.
LEMMA OpenSessionKeeps ==
    ASSUME TurnsInv, OpenSession
    PROVE  TurnsInv'
<1>1. PICK c : c = [conv[Opener] EXCEPT !.at = "starting"]
  OBVIOUS
<1>2. Opener \in Turns
  BY TurnsAssumption
<1>3. /\ c \in Convs(Len(approvals)) /\ c.at = "starting"
      /\ TurnOK(conv[Opener], turn[Opener])
  BY <1>1, <1>2, ConvFields DEF Convs, Stages
<1>4. /\ conv' = [conv EXCEPT ![Opener] = c] /\ conv[Opener].at = "idle"
      /\ approvals' = approvals /\ executed' = executed
      /\ chain' = chain /\ turn' = turn
  BY <1>1 DEF OpenSession
<1>5. RowTypes'
  BY <1>2 DEF TurnsInv, RowTypes, OpenSession, counts
<1>6. ChainServes'
  BY <1>4 DEF TurnsInv, ChainServes, Agree
<1>7. TurnOK(c, turn'[Opener])
  BY <1>3, <1>4 DEF TurnOK
<1>8. RowOK(c, approvals)
  BY <1>3 DEF RowOK, AtRow
<1>9. \A a \in DOMAIN approvals :
         ~ (approvals[a].status = "pending" /\ approvals[a].turn = Opener)
  BY <1>2, <1>4, NotAwaiting DEF TurnsInv, Seeing
<1> QED
  BY <1>2, <1>3, <1>4, <1>5, <1>6, <1>7, <1>8, <1>9, OwnStep

\* A later turn joins the chain at its end.
LEMMA SendKeeps ==
    ASSUME TurnsInv, NEW t \in Turns, Send(t)
    PROVE  TurnsInv'
<1>1. PICK c : c = [conv[t] EXCEPT !.at = "queued"]
  OBVIOUS
<1>2. /\ c \in Convs(Len(approvals)) /\ c.at = "queued"
      /\ TurnOK(conv[t], turn[t])
  BY <1>1, ConvFields DEF Convs, Stages
<1>3. /\ conv' = [conv EXCEPT ![t] = c] /\ conv[t].at = "idle"
      /\ approvals' = approvals /\ executed' = executed
      /\ chain' = Append(chain, t) /\ turn' = turn
  BY <1>1 DEF Send, rows
<1>4. chain \in Seq(Turns)
  BY DEF TurnsInv, RowTypes
<1>5. RowTypes'
  BY <1>4 DEF TurnsInv, RowTypes, Send, counts, rows
<1>6. ChainServes'
  <2> SUFFICES ASSUME NEW x \in Turns, x # Opener, conv'[x].at \notin Quiet
               PROVE  chain' # << >> /\ Head(chain') = x
    BY DEF ChainServes
  <2>1. conv'[x] = conv[x]
    BY <1>2, <1>3 DEF TurnsInv, Agree, Quiet
  <2>2. chain # << >> /\ Head(chain) = x
    BY <2>1 DEF TurnsInv, ChainServes
  <2> QED
    BY <1>3, <1>4, <2>2
<1>7. TurnOK(c, turn'[t])
  BY <1>2, <1>3 DEF TurnOK
<1>8. RowOK(c, approvals)
  BY <1>2 DEF RowOK, AtRow
<1>9. \A a \in DOMAIN approvals :
         ~ (approvals[a].status = "pending" /\ approvals[a].turn = t)
  BY <1>3, NotAwaiting DEF TurnsInv, Seeing
<1> QED
  BY <1>2, <1>3, <1>5, <1>6, <1>7, <1>8, <1>9, OwnStep

\* The turn at the head of the chain starts.
LEMMA StartKeeps ==
    ASSUME TurnsInv, NEW t \in Turns, Start(t)
    PROVE  TurnsInv'
<1>1. PICK c : c = [conv[t] EXCEPT !.at = "starting"]
  OBVIOUS
<1>2. /\ c \in Convs(Len(approvals)) /\ c.at = "starting"
      /\ TurnOK(conv[t], turn[t])
  BY <1>1, ConvFields DEF Convs, Stages
<1>3. /\ conv' = [conv EXCEPT ![t] = c] /\ conv[t].at = "queued"
      /\ approvals' = approvals /\ executed' = executed
      /\ chain' = chain /\ turn' = turn
      /\ chain # << >> /\ Head(chain) = t
  BY <1>1 DEF Start, rows
<1>4. RowTypes'
  BY DEF TurnsInv, RowTypes, Start, counts, rows
<1>5. ChainServes'
  BY <1>3 DEF TurnsInv, ChainServes, Agree
<1>6. TurnOK(c, turn'[t])
  BY <1>2, <1>3 DEF TurnOK
<1>7. RowOK(c, approvals)
  BY <1>2 DEF RowOK, AtRow
<1>8. \A a \in DOMAIN approvals :
         ~ (approvals[a].status = "pending" /\ approvals[a].turn = t)
  BY <1>3, NotAwaiting DEF TurnsInv, Seeing
<1> QED
  BY <1>2, <1>3, <1>4, <1>5, <1>6, <1>7, <1>8, OwnStep

\* A conversation that is over has no row.
LEMMA OverConv ==
    ASSUME NEW n \in Nat
    PROVE  /\ [Idle EXCEPT !.at = "over"] \in Convs(n)
           /\ [Idle EXCEPT !.at = "over"].at = "over"
<1>1. Idle \in Convs(n)
  <2>1. 0 \in 0..n /\ "idle" \in Stages
    BY DEF Stages
  <2> QED
    BY <2>1 DEF Convs, Idle
<1>2. "over" \in Stages
  BY DEF Stages
<1> QED
  BY <1>1, <1>2 DEF Convs

\* A turn leaves, and with it the head of the chain unless it is the first
\* turn, which was never in it.
LEMMA LeaveKeeps ==
    ASSUME TurnsInv, NEW t \in Turns, Leave(t)
    PROVE  TurnsInv'
<1>1. PICK c : c = [Idle EXCEPT !.at = "over"]
  OBVIOUS
<1>2. c \in Convs(Len(approvals)) /\ c.at = "over"
  <2>1. Len(approvals) \in Nat
    BY ConvFields
  <2> QED
    BY <1>1, <2>1, OverConv
<1>3. /\ conv' = [conv EXCEPT ![t] = c] /\ conv[t].at = "leaving"
      /\ approvals' = approvals /\ executed' = executed /\ turn' = turn
      /\ chain' = IF t = Opener THEN chain ELSE Tail(chain)
  BY <1>1 DEF Leave, rows
<1>4. chain \in Seq(Turns) /\ (t # Opener => chain # << >> /\ Head(chain) = t)
  BY <1>3 DEF TurnsInv, RowTypes, ChainServes, Quiet
<1>5. RowTypes'
  <2>1. chain' \in Seq(Turns)
    BY <1>3, <1>4
  <2>2. registered' \in Turns \cup {None}
    BY DEF TurnsInv, RowTypes, Leave
  <2> QED
    BY <2>1, <2>2 DEF TurnsInv, RowTypes, Leave, counts, rows
<1>6. ChainServes'
  <2> SUFFICES ASSUME NEW x \in Turns, x # Opener, conv'[x].at \notin Quiet
               PROVE  chain' # << >> /\ Head(chain') = x
    BY DEF ChainServes
  <2>1. x # t /\ conv'[x] = conv[x]
    BY <1>2, <1>3 DEF TurnsInv, Agree, Quiet
  <2>2. chain # << >> /\ Head(chain) = x
    BY <2>1 DEF TurnsInv, ChainServes
  <2> QED
    BY <1>3, <1>4, <2>1, <2>2
<1>7. TurnOK(c, turn'[t])
  BY <1>2 DEF TurnOK
<1>8. RowOK(c, approvals)
  BY <1>2 DEF RowOK, AtRow
<1>9. \A a \in DOMAIN approvals :
         ~ (approvals[a].status = "pending" /\ approvals[a].turn = t)
  BY <1>3, NotAwaiting DEF TurnsInv, Seeing
<1> QED
  BY <1>2, <1>3, <1>5, <1>6, <1>7, <1>8, <1>9, OwnStep

\* A conversation that is aborted keeps its row; its wait ends with "aborted".
LEMMA AbortedConv ==
    ASSUME NEW n \in Nat, NEW c \in Convs(n)
    PROVE  /\ Aborted(c) \in Convs(n)
           /\ Aborted(c).payload = c.payload /\ Aborted(c).ask = c.ask
           /\ IF c.at = "parked"
              THEN Aborted(c).at = "woken" /\ Aborted(c).outcome = "aborted"
              ELSE Aborted(c).at = c.at /\ Aborted(c).outcome = c.outcome
<1>1. CASE c.at = "parked"
  BY <1>1 DEF Aborted, Convs, Stages, Outcomes
<1>2. CASE c.at # "parked"
  BY <1>2 DEF Aborted, Convs, Stages, Outcomes
<1> QED
  BY <1>1, <1>2

\* A turn is stopped; its approval stays pending until the wait is closed.
LEMMA StopKeeps ==
    ASSUME TurnsInv, NEW t \in Turns, Stop(t)
    PROVE  TurnsInv'
<1>1. PICK c : c = Aborted(conv[t])
  OBVIOUS
<1>2. /\ conv[t] \in Convs(Len(approvals)) /\ Len(approvals) \in Nat
      /\ RowOK(conv[t], approvals) /\ TurnOK(conv[t], turn[t])
  BY ConvFields
<1>3. /\ c \in Convs(Len(approvals))
      /\ c.payload = conv[t].payload /\ c.ask = conv[t].ask
      /\ IF conv[t].at = "parked" THEN c.at = "woken" /\ c.outcome = "aborted"
         ELSE c.at = conv[t].at /\ c.outcome = conv[t].outcome
  BY <1>1, <1>2, AbortedConv
<1>4. /\ conv' = [conv EXCEPT ![t] = c] /\ conv[t].at \notin Quiet
      /\ approvals' = approvals /\ executed' = executed
      /\ chain' = chain /\ turn' = turn
  BY <1>1 DEF Stop, rows, Quiet
<1>5. RowTypes'
  BY DEF TurnsInv, RowTypes, Stop, counts, rows
<1>6. ChainServes'
  BY <1>4, ServedKept DEF TurnsInv, Agree
<1>7. TurnOK(c, turn'[t])
  BY <1>2, <1>3, <1>4 DEF TurnOK
<1>8. RowOK(c, approvals)
  BY <1>2, <1>3 DEF RowOK, AtRow
<1>9. \A a \in DOMAIN approvals :
         approvals[a].status = "pending" /\ approvals[a].turn = t =>
            c.ask = a /\ c.at \in Seeing
  BY <1>3 DEF TurnsInv, Agree, RaisedOK, Seeing
<1> QED
  BY <1>3, <1>4, <1>5, <1>6, <1>7, <1>8, <1>9, OwnStep

-----------------------------------------------------------------------------
(* A turn, up to its first gated call and after its last                   *)

\* A turn begins.
LEMMA BeginTurnKeeps ==
    ASSUME TurnsInv, NEW t \in Turns, BeginTurn(t)
    PROVE  TurnsInv'
<1>1. PICK c : c = [conv[t] EXCEPT !.at = "thinking"]
  OBVIOUS
<1>2. c \in Convs(Len(approvals)) /\ c.at = "thinking"
  BY <1>1, ConvFields DEF Convs, Stages
<1>3. /\ conv' = [conv EXCEPT ![t] = c] /\ conv[t].at = "starting"
      /\ approvals' = approvals /\ executed' = executed /\ chain' = chain
      /\ turn' = [turn EXCEPT ![t] = "running"]
  BY <1>1 DEF BeginTurn
<1>4. RowTypes'
  BY DEF TurnsInv, RowTypes, BeginTurn, counts, ActiveTurn
<1>5. /\ turn'[t] = "running"
      /\ \A x \in Turns \ {t} : turn'[x] = turn[x]
  BY <1>3 DEF TurnsInv, RowTypes
<1>6. TurnOK(c, turn'[t])
  BY <1>2, <1>5 DEF TurnOK
<1>7. conv[t].at \notin Quiet \cup Seeing /\ c.at \notin AtRow
  BY <1>2, <1>3 DEF Quiet, Seeing, AtRow
<1> QED
  BY <1>2, <1>3, <1>4, <1>5, <1>6, <1>7, WorkStep

\* A turn is refused.
LEMMA BeginRefusedKeeps ==
    ASSUME TurnsInv, NEW t \in Turns, BeginRefused(t)
    PROVE  TurnsInv'
<1>1. PICK c : c = [conv[t] EXCEPT !.at = "leaving"]
  OBVIOUS
<1>2. c \in Convs(Len(approvals)) /\ c.at = "leaving"
  BY <1>1, ConvFields DEF Convs, Stages
<1>3. /\ conv' = [conv EXCEPT ![t] = c] /\ conv[t].at = "starting"
      /\ approvals' = approvals /\ executed' = executed /\ chain' = chain
      /\ turn' = turn
  BY <1>1 DEF BeginRefused, rows
<1>4. RowTypes'
  BY DEF TurnsInv, RowTypes, BeginRefused, counts, rows
<1>5. TurnOK(c, turn'[t])
  BY <1>2 DEF TurnOK
<1>6. conv[t].at \notin Quiet \cup Seeing /\ c.at \notin AtRow
  BY <1>2, <1>3 DEF Quiet, Seeing, AtRow
<1> QED
  BY <1>2, <1>3, <1>4, <1>5, <1>6, WorkStep

\* The approved call has run; the conversation lets go of its row.
LEMMA RunToolKeeps ==
    ASSUME TurnsInv, NEW t \in Turns, RunTool(t)
    PROVE  TurnsInv'
<1>1. PICK c : c = [conv[t] EXCEPT !.at = "thinking", !.ask = 0, !.tool = None,
                                   !.payload = None]
  OBVIOUS
<1>2. c \in Convs(Len(approvals)) /\ c.at = "thinking" /\ TurnOK(conv[t], turn[t])
  <2>1. /\ conv[t] \in Convs(Len(approvals)) /\ 0 \in 0..Len(approvals)
        /\ TurnOK(conv[t], turn[t])
    BY ConvFields
  <2> QED
    BY <1>1, <2>1 DEF Convs, Stages
<1>3. /\ conv' = [conv EXCEPT ![t] = c] /\ conv[t].at = "tool"
      /\ approvals' = approvals /\ executed' = executed /\ chain' = chain
      /\ turn' = turn
  BY <1>1 DEF RunTool, rows
<1>4. RowTypes'
  BY DEF TurnsInv, RowTypes, RunTool, counts, rows
<1>5. TurnOK(c, turn'[t])
  BY <1>2, <1>3 DEF TurnOK
<1>6. conv[t].at \notin Quiet \cup Seeing /\ c.at \notin AtRow
  BY <1>2, <1>3 DEF Quiet, Seeing, AtRow
<1> QED
  BY <1>2, <1>3, <1>4, <1>5, <1>6, WorkStep

-----------------------------------------------------------------------------
(* Waiting for a decision and going on after it                            *)

\* What the gate answers: the call runs only for an approval.
LEMMA AnswerConv ==
    ASSUME TurnsInv, NEW t \in Turns, conv[t].at \in AtRow,
           NEW o \in Outcomes, Answer(t, o)
    PROVE  \E c \in Convs(Len(approvals)) :
              /\ conv' = [conv EXCEPT ![t] = c]
              /\ c.at \in {"tool", "thinking", "ending"}
              /\ c.at = "tool" => /\ o = "approved"
                                  /\ c.ask = conv[t].ask
                                  /\ c.payload = conv[t].payload
<1>1. PICK s \in {"tool", "thinking", "ending"} :
         /\ s = "tool" => o = "approved"
         /\ conv' = [conv EXCEPT ![t].at = s,
                         ![t].outcome = IF s = "ending" THEN o ELSE None,
                         ![t].ask = IF s = "tool" THEN @ ELSE 0,
                         ![t].tool = IF s = "tool" THEN @ ELSE None,
                         ![t].payload = IF s = "tool" THEN @ ELSE None]
  <2>1. CASE o = "approved"
    BY <2>1 DEF Answer
  <2>2. CASE o = "denied"
    BY <2>2 DEF Answer
  <2>3. CASE o = "expired"
    BY <2>3 DEF Answer
  <2>4. CASE o = "aborted"
    BY <2>4 DEF Answer
  <2> QED
    BY <2>1, <2>2, <2>3, <2>4 DEF Outcomes
<1>2. PICK c : c = [conv[t] EXCEPT
                       !.at = s,
                       !.outcome = IF s = "ending" THEN o ELSE None,
                       !.ask = IF s = "tool" THEN conv[t].ask ELSE 0,
                       !.tool = IF s = "tool" THEN conv[t].tool ELSE None,
                       !.payload = IF s = "tool" THEN conv[t].payload ELSE None]
  OBVIOUS
<1>3. conv[t] \in Convs(Len(approvals)) /\ Len(approvals) \in Nat
  BY ConvFields
<1>4. /\ c \in Convs(Len(approvals)) /\ c.at = s
      /\ s = "tool" => c.ask = conv[t].ask /\ c.payload = conv[t].payload
  <2>1. 0 \in 0..Len(approvals) /\ s \in Stages
    BY <1>3 DEF Stages
  <2>2. CASE s = "tool"
    BY <1>2, <1>3, <2>1, <2>2 DEF Convs
  <2>3. CASE s # "tool"
    <3>1. c = [conv[t] EXCEPT !.at = s,
                              !.outcome = IF s = "ending" THEN o ELSE None,
                              !.ask = 0, !.tool = None, !.payload = None]
      BY <1>2, <2>3
    <3>2. (IF s = "ending" THEN o ELSE None) \in Outcomes \cup {None}
      OBVIOUS
    <3> QED
      BY <1>3, <2>1, <2>3, <3>1, <3>2 DEF Convs
  <2> QED
    BY <2>2, <2>3
<1>5. conv' = [conv EXCEPT ![t] = c]
  BY <1>1, <1>2
<1> QED
  BY <1>1, <1>4, <1>5

\* A turn whose row is decided goes on, and runs its call only if the row is
\* approved.
LEMMA AnsweredKeeps ==
    ASSUME TurnsInv, NEW t \in Turns, conv[t].at \in {"requested", "woken"},
           NEW o \in {"approved", "denied", "expired"},
           approvals[conv[t].ask].status = o,
           Answer(t, o), RowTypes', turn'[t] = "running",
           \A x \in Turns \ {t} : turn'[x] = turn[x],
           approvals' = approvals, executed' = executed, chain' = chain
    PROVE  TurnsInv'
<1>1. /\ o \in Outcomes /\ conv[t].at \in AtRow
      /\ RowOK(conv[t], approvals) /\ Agree(conv, approvals)
  BY ConvFields DEF Outcomes, AtRow, TurnsInv
<1>2. PICK c \in Convs(Len(approvals)) :
         /\ conv' = [conv EXCEPT ![t] = c]
         /\ c.at \in {"tool", "thinking", "ending"}
         /\ c.at = "tool" => /\ o = "approved"
                             /\ c.ask = conv[t].ask
                             /\ c.payload = conv[t].payload
  BY <1>1, AnswerConv
<1>3. /\ conv'[t] = c
      /\ \A x \in Turns \ {t} : conv'[x] = conv[x]
  BY <1>1, <1>2 DEF Agree
<1>4. ChainServes'
  BY <1>3, ServedKept DEF Quiet
<1>5. RowOK(c, approvals)
  BY <1>1, <1>2 DEF RowOK, AtRow
<1>6. TurnOK(c, turn'[t])
  BY <1>2 DEF TurnOK, ActiveTurn
<1>7. \A a \in DOMAIN approvals :
         ~ (approvals[a].status = "pending" /\ approvals[a].turn = t)
  BY <1>1 DEF Agree, RaisedOK
<1> QED
  BY <1>2, <1>4, <1>5, <1>6, <1>7, OwnStep

\* The gate looks at the row once more: it answers with a decision that has
\* come already, and parks the turn on a pending row.
LEMMA WaitKeeps ==
    ASSUME TurnsInv, NEW t \in Turns, WaitOnApproval(t)
    PROVE  TurnsInv'
<1>1. /\ conv[t] \in Convs(Len(approvals)) /\ Len(approvals) \in Nat
      /\ RowOK(conv[t], approvals) /\ TurnOK(conv[t], turn[t])
      /\ approvals \in Seq(Rows) /\ Agree(conv, approvals)
  BY ConvFields DEF TurnsInv, Agree
<1>2. /\ conv[t].at = "requested"
      /\ approvals' = approvals /\ executed' = executed /\ chain' = chain
      /\ enabled' = enabled /\ registered' = registered
      /\ calls' = calls /\ crashes' = crashes /\ switches' = switches
  BY DEF WaitOnApproval, counts
<1>3. /\ turn[t] = "running" /\ conv[t].ask \in DOMAIN approvals
      /\ approvals[conv[t].ask].payload = conv[t].payload
  BY <1>1, <1>2 DEF TurnOK, RowOK, AtRow
<1>4. approvals[conv[t].ask].status \in RowStates
  BY <1>1, <1>3, RowFields
<1>5. CASE /\ approvals[conv[t].ask].status # "pending"
           /\ Answer(t, approvals[conv[t].ask].status)
           /\ turn' = turn /\ session' = session
  <2>1. RowTypes'
    BY <1>2, <1>5 DEF TurnsInv, RowTypes
  <2> QED
    BY <1>2, <1>3, <1>4, <1>5, <2>1, AnsweredKeeps DEF RowStates
<1>6. CASE /\ approvals[conv[t].ask].status = "pending"
           /\ turn' = [turn EXCEPT ![t] = "waiting"]
           /\ session' = "waiting"
           /\ conv' = [conv EXCEPT ![t] =
                         LET c == [conv[t] EXCEPT !.at = "parked"]
                         IN  IF c.aborted THEN Aborted(c) ELSE c]
  <2>1. PICK d : d = [conv[t] EXCEPT !.at = "parked"]
    OBVIOUS
  <2>2. /\ d \in Convs(Len(approvals)) /\ d.at = "parked"
        /\ d.ask = conv[t].ask /\ d.payload = conv[t].payload
    BY <1>1, <2>1 DEF Convs, Stages
  <2>3. PICK c : c = IF d.aborted THEN Aborted(d) ELSE d
    OBVIOUS
  <2>4. /\ c \in Convs(Len(approvals))
        /\ c.ask = conv[t].ask /\ c.payload = conv[t].payload
        /\ \/ c.at = "parked"
           \/ c.at = "woken" /\ c.outcome = "aborted"
    BY <1>1, <2>2, <2>3, AbortedConv
  <2>5. conv' = [conv EXCEPT ![t] = c]
    BY <1>6, <2>1, <2>3
  <2>6. RowTypes'
    BY <1>2, <1>6 DEF TurnsInv, RowTypes, ActiveTurn
  <2>7. turn'[t] = "waiting" /\ \A x \in Turns \ {t} : turn'[x] = turn[x]
    BY <1>6 DEF TurnsInv, RowTypes
  <2>8. /\ conv'[t] = c
        /\ \A x \in Turns \ {t} : conv'[x] = conv[x]
    BY <1>1, <2>5 DEF Agree
  <2>9. ChainServes'
    BY <1>2, <2>8, ServedKept DEF Quiet
  <2>10. RowOK(c, approvals)
    BY <1>3, <1>6, <2>4 DEF RowOK, AtRow
  <2>11. TurnOK(c, turn'[t])
    BY <2>4, <2>7 DEF TurnOK
  <2>12. \A a \in DOMAIN approvals :
            approvals[a].status = "pending" /\ approvals[a].turn = t =>
               c.ask = a /\ c.at \in Seeing
    BY <1>1, <2>4 DEF Agree, RaisedOK, Seeing
  <2> QED
    BY <1>2, <2>4, <2>5, <2>6, <2>7, <2>9, <2>10, <2>11, <2>12, OwnStep
<1> QED
  BY <1>3, <1>5, <1>6 DEF WaitOnApproval

\* A turn that was woken with a decision runs again.
LEMMA ResumeTurnKeeps ==
    ASSUME TurnsInv, NEW t \in Turns, ResumeTurn(t)
    PROVE  TurnsInv'
<1>1. RowOK(conv[t], approvals) /\ TurnOK(conv[t], turn[t])
  BY ConvFields
<1>2. /\ conv[t].at = "woken" /\ conv[t].outcome # "aborted"
      /\ Answer(t, conv[t].outcome)
      /\ approvals' = approvals /\ executed' = executed /\ chain' = chain
  BY DEF ResumeTurn
<1>3. /\ turn[t] = "waiting"
      /\ conv[t].outcome \in {"approved", "denied", "expired"}
      /\ approvals[conv[t].ask].status = conv[t].outcome
  BY <1>1, <1>2 DEF TurnOK, RowOK, AtRow
<1>4. turn' = [turn EXCEPT ![t] = "running"] /\ session' = "running"
  BY <1>3 DEF ResumeTurn
<1>5. RowTypes'
  BY <1>4 DEF TurnsInv, RowTypes, ResumeTurn, counts, ActiveTurn
<1>6. turn'[t] = "running" /\ \A x \in Turns \ {t} : turn'[x] = turn[x]
  BY <1>4 DEF TurnsInv, RowTypes
<1> QED
  BY <1>2, <1>3, <1>5, <1>6, AnsweredKeeps

-----------------------------------------------------------------------------
(* Steps that decide rows                                                  *)

\* What was approved for the session stays approved where pending rows are
\* decided.
LEMMA DecidingKeepsApproved ==
    ASSUME approvals \in Seq(Rows), ApprovedStaysApproved, NEW A,
           NEW s \in RowStates, approvals' = Decided(A, s), executed' = executed
    PROVE  ApprovedStaysApproved'
<1>1. /\ DOMAIN approvals' = DOMAIN approvals
      /\ \A a \in DOMAIN approvals :
            /\ approvals'[a].payload = approvals[a].payload
            /\ approvals[a].status = "approved" =>
                  approvals'[a].status = "approved"
  BY DecidedRows
<1> QED
  BY <1>1, ApprovedKept

\* Rows are decided and the conversations that wait on them are woken.
LEMMA SettledKeeps ==
    ASSUME TurnsInv, NEW A \in SUBSET Pending,
           NEW s \in {"approved", "denied", "expired"},
           approvals' = Decided(A, s), conv' = Settled(A, s),
           turn' = turn, chain' = chain, RowTypes', ApprovedStaysApproved'
    PROVE  TurnsInv'
<1>1. Agree(conv, approvals) /\ Len(approvals) \in Nat
      /\ conv \in [Turns -> Convs(Len(approvals))]
  BY DEF TurnsInv, Agree
<1>2. Agree(conv', approvals')
  BY <1>1, SettlingAgrees
<1>3. \A x \in Turns :
         \/ conv'[x].at = conv[x].at
         \/ conv[x].at = "parked" /\ conv'[x].at = "woken"
  BY <1>1, SettledConvs
<1>4. \A x \in Turns : TurnOK(conv'[x], turn'[x])
  <2>1. {} \in SUBSET Turns /\ \A x \in {} : TurnOK(conv'[x], turn'[x])
    OBVIOUS
  <2>2. \A x \in Turns \ {} : turn'[x] = turn[x]
    OBVIOUS
  <2> QED
    BY <1>3, <2>1, <2>2, OthersKept
<1>5. ChainServes'
  BY <1>3, ServedKept DEF Quiet
<1> QED
  BY <1>2, <1>4, <1>5 DEF TurnsInv, Agree, RaisedOK

\* The same, with a step of the conversation of t on top.
LEMMA SettledOwnStep ==
    ASSUME TurnsInv, NEW A \in SUBSET Pending,
           NEW s \in {"approved", "denied", "expired"},
           NEW t \in Turns, NEW c \in Convs(Len(approvals)),
           approvals' = Decided(A, s),
           conv' = [Settled(A, s) EXCEPT ![t] = c],
           executed' = executed, chain' = chain, RowTypes',
           \A x \in Turns \ {t} : turn'[x] = turn[x],
           conv[t].at \notin Quiet,
           RowOK(c, approvals'),
           \A a \in DOMAIN approvals' :
              approvals'[a].status = "pending" /\ approvals'[a].turn = t =>
                 c.ask = a /\ c.at \in Seeing,
           TurnOK(c, turn'[t])
    PROVE  TurnsInv'
<1>1. /\ Agree(conv, approvals) /\ Len(approvals) \in Nat
      /\ conv \in [Turns -> Convs(Len(approvals))] /\ approvals \in Seq(Rows)
  BY DEF TurnsInv, Agree
<1>2. PICK cs : cs = Settled(A, s)
  OBVIOUS
<1>3. Agree(cs, approvals')
  BY <1>1, <1>2, SettlingAgrees
<1>4. Len(approvals') = Len(approvals)
  <2>1. s \in RowStates
    BY DEF RowStates
  <2> QED
    BY <1>1, <2>1, DecidedRows
<1>5. conv' = [cs EXCEPT ![t] = c]
  BY <1>2
<1>6. Agree(conv', approvals')
  <2>1. PICK rs : rs = approvals'
    OBVIOUS
  <2>2. Agree(cs, rs) /\ c \in Convs(Len(rs)) /\ RowOK(c, rs)
    BY <1>3, <1>4, <2>1
  <2>3. \A a \in DOMAIN rs : rs[a].status = "pending" /\ rs[a].turn = t =>
                               c.ask = a /\ c.at \in Seeing
    BY <2>1
  <2>4. Agree([cs EXCEPT ![t] = c], rs)
    BY <2>2, <2>3, OneConversation
  <2> QED
    BY <1>5, <2>1, <2>4
<1>7. /\ cs \in [Turns -> Convs(Len(approvals))]
      /\ \A x \in Turns : \/ cs[x].at = conv[x].at
                          \/ conv[x].at = "parked" /\ cs[x].at = "woken"
  BY <1>1, <1>2, SettledConvs
<1>8. /\ conv'[t] = c
      /\ \A x \in Turns \ {t} : conv'[x] = cs[x]
  BY <1>5, <1>7
<1>9. \A x \in Turns : TurnOK(conv'[x], turn'[x])
  <2>1. {t} \in SUBSET Turns /\ \A x \in {t} : TurnOK(conv'[x], turn'[x])
    BY <1>8
  <2>2. \A x \in Turns \ {t} :
           /\ turn'[x] = turn[x]
           /\ \/ conv'[x].at = conv[x].at
              \/ conv[x].at = "parked" /\ conv'[x].at = "woken"
    BY <1>7, <1>8
  <2> QED
    BY <2>1, <2>2, OthersKept
<1>10. ChainServes'
  BY <1>7, <1>8, ServedKept DEF Quiet
<1>11. ApprovedStaysApproved'
  BY <1>1, DecidingKeepsApproved DEF TurnsInv, RowStates
<1> QED
  BY <1>6, <1>9, <1>10, <1>11 DEF TurnsInv, Agree, RaisedOK

\* The rows that are due expire.
LEMMA ExpireDueKeeps ==
    ASSUME TurnsInv, ExpireDue
    PROVE  TurnsInv'
<1>1. /\ approvals' = Decided(Due, "expired") /\ conv' = Settled(Due, "expired")
      /\ turn' = turn /\ chain' = chain /\ executed' = executed
  BY DEF ExpireDue, Expired
<1>2. Due \in SUBSET Pending /\ approvals \in Seq(Rows)
  BY DEF Due, TurnsInv, Agree
<1>3. RowTypes'
  BY DEF TurnsInv, RowTypes, ExpireDue, Expired, counts
<1>4. ApprovedStaysApproved'
  BY <1>1, <1>2, DecidingKeepsApproved DEF TurnsInv, RowStates
<1> QED
  BY <1>1, <1>2, <1>3, <1>4, SettledKeeps

\* A person decides: what is approved for the session is the newest row.
LEMMA DecideKeeps ==
    ASSUME TurnsInv, NEW a \in DOMAIN approvals,
           NEW s \in {"approved", "denied"}, Decide(a, s)
    PROVE  TurnsInv'
<1>1. CASE a \in Due
  BY <1>1, ExpireDueKeeps DEF Decide
<1>2. CASE a \notin Due
  <2>1. /\ a \in Pending /\ {a} \in SUBSET Pending
        /\ turn' = turn /\ chain' = chain /\ enabled' = enabled
        /\ registered' = registered /\ UNCHANGED <<calls, crashes, switches>>
    BY <1>2 DEF Decide, counts
  <2>2. /\ approvals \in Seq(Rows) /\ ApprovedStaysApproved
        /\ approvals[a].status = "pending" /\ a = Len(approvals)
    BY <2>1 DEF TurnsInv, Agree, RaisedOK, Pending
  <2>3. CASE turn[approvals[a].turn] \in TerminalTurn
    <3>1. /\ approvals' = Decided({a}, "expired")
          /\ conv' = Settled({a}, "expired")
          /\ executed' = executed /\ session' = session
      BY <1>2, <2>3 DEF Decide
    <3>2. RowTypes'
      BY <2>1, <3>1 DEF TurnsInv, RowTypes
    <3>3. ApprovedStaysApproved'
      BY <2>2, <3>1, DecidingKeepsApproved DEF RowStates
    <3> QED
      BY <2>1, <3>1, <3>2, <3>3, SettledKeeps
  <2>4. CASE turn[approvals[a].turn] \notin TerminalTurn
    <3>1. /\ approvals' = Decided({a}, s) /\ conv' = Settled({a}, s)
          /\ executed' = IF s = "approved"
                         THEN executed \cup {approvals[a].payload}
                         ELSE executed
          /\ session' = "open"
      BY <1>2, <2>4 DEF Decide
    <3>2. RowTypes'
      <4>1. approvals[a].payload \in Payloads
        BY <2>2, RowFields
      <4> QED
        BY <2>1, <3>1, <4>1 DEF TurnsInv, RowTypes
    <3>3. ApprovedStaysApproved'
      <4>1. CASE s # "approved"
        BY <2>2, <3>1, <4>1, DecidingKeepsApproved DEF RowStates
      <4>2. CASE s = "approved"
        <5>1. /\ DOMAIN approvals' = DOMAIN approvals
              /\ \A b \in DOMAIN approvals :
                    /\ approvals'[b].payload = approvals[b].payload
                    /\ approvals[b].status = "approved" =>
                          approvals'[b].status = "approved"
              /\ approvals'[a].status = "approved"
          BY <2>2, <3>1, <4>2, DecidedRows DEF RowStates
        <5>2. \A b \in DOMAIN approvals : ~ (b > a)
          BY <2>2
        <5> SUFFICES ASSUME NEW p \in executed'
                     PROVE  \E b \in DOMAIN approvals' :
                               /\ approvals'[b].payload = p
                               /\ approvals'[b].status = "approved"
                               /\ \A d \in DOMAIN approvals' :
                                     d > b => approvals'[d].payload # p
          BY DEF ApprovedStaysApproved
        <5>3. CASE p = approvals[a].payload
          BY <5>1, <5>2, <5>3
        <5>4. CASE p \in executed
          <6>1. PICK b \in DOMAIN approvals :
                   /\ approvals[b].payload = p /\ approvals[b].status = "approved"
                   /\ \A d \in DOMAIN approvals : d > b => approvals[d].payload # p
            BY <2>2, <5>4 DEF ApprovedStaysApproved
          <6> QED
            BY <5>1, <6>1
        <5> QED
          BY <3>1, <4>2, <5>3, <5>4
      <4> QED
        BY <4>1, <4>2
    <3> QED
      BY <2>1, <3>1, <3>2, <3>3, SettledKeeps
  <2> QED
    BY <2>3, <2>4
<1> QED
  BY <1>1, <1>2

\* A turn ends, and its approvals with it.
LEMMA CompleteTurnKeeps ==
    ASSUME TurnsInv, NEW t \in Turns, CompleteTurn(t)
    PROVE  TurnsInv'
<1>1. PICK A \in SUBSET Pending : A = {a \in Pending : approvals[a].turn = t}
  OBVIOUS
<1>2. PICK s \in TerminalTurn : Finish(t, s)
  BY DEF CompleteTurn, TerminalTurn
<1>3. /\ conv[t].at \in {"thinking", "ending"}
      /\ UNCHANGED <<executed, enabled, chain, registered, calls, crashes,
                     switches>>
      /\ turn' = [turn EXCEPT ![t] = s]
      /\ approvals' = Decided(A, "expired")
      /\ session' = "open"
      /\ conv' = [Settled(A, "expired") EXCEPT ![t].at = "leaving"]
  BY <1>1, <1>2 DEF CompleteTurn, Finish, counts
<1>4. /\ conv \in [Turns -> Convs(Len(approvals))] /\ Len(approvals) \in Nat
      /\ conv[t] \in Convs(Len(approvals))
      /\ Agree(conv, approvals)
  BY DEF TurnsInv, Agree
<1>5. /\ Settled(A, "expired")[t] = conv[t]
      /\ Agree(Settled(A, "expired"), approvals')
  BY <1>3, <1>4, SettledConvs, SettlingAgrees
<1>6. PICK c : c = [conv[t] EXCEPT !.at = "leaving"]
  OBVIOUS
<1>7. c \in Convs(Len(approvals)) /\ c.at = "leaving"
  BY <1>4, <1>6 DEF Convs, Stages
<1>8. conv' = [Settled(A, "expired") EXCEPT ![t] = c]
  BY <1>3, <1>5, <1>6
<1>9. \A a \in DOMAIN approvals' :
         ~ (approvals'[a].status = "pending" /\ approvals'[a].turn = t)
  <2>1. PICK cs, rs : cs = Settled(A, "expired") /\ rs = approvals'
    OBVIOUS
  <2>2. cs[t].at \notin Seeing /\ Agree(cs, rs)
    BY <1>3, <1>5, <2>1 DEF Seeing
  <2> QED
    BY <2>1, <2>2, NotAwaiting
<1>10. RowTypes' /\ \A x \in Turns \ {t} : turn'[x] = turn[x]
  BY <1>3 DEF TurnsInv, RowTypes
<1>11. RowOK(c, approvals') /\ TurnOK(c, turn'[t]) /\ conv[t].at \notin Quiet
  BY <1>3, <1>7 DEF RowOK, AtRow, TurnOK, Quiet
<1> QED
  BY <1>3, <1>7, <1>8, <1>9, <1>10, <1>11, SettledOwnStep

\* A stopped turn closes its approval.
LEMMA CloseApprovalKeeps ==
    ASSUME TurnsInv, NEW t \in Turns, CloseApproval(t)
    PROVE  TurnsInv'
<1>1. PICK b : b = conv[t].ask
  OBVIOUS
<1>2. PICK A \in SUBSET Pending : A = {b} \cap Pending
  OBVIOUS
<1>3. /\ conv[t].at = "woken"
      /\ UNCHANGED <<turn, executed, enabled, chain, registered, calls,
                     crashes, switches>>
      /\ approvals' = Decided({b}, "expired")
      /\ session' = IF session = "waiting" THEN "open" ELSE session
      /\ conv' = [Settled(A, "expired") EXCEPT
                     ![t].at = "ending", ![t].ask = 0, ![t].tool = None,
                     ![t].payload = None]
  BY <1>1, <1>2 DEF CloseApproval, counts
<1>4. /\ conv \in [Turns -> Convs(Len(approvals))] /\ Len(approvals) \in Nat
      /\ conv[t] \in Convs(Len(approvals)) /\ TurnOK(conv[t], turn[t])
      /\ Agree(conv, approvals) /\ approvals \in Seq(Rows)
  BY DEF TurnsInv, Agree
<1>5. approvals' = Decided(A, "expired")
  <2>1. \A a : a \in {b} \cap Pending <=> a \in A \cap Pending
    BY <1>2
  <2> QED
    BY <1>3, <2>1 DEF Decided
<1>6. Settled(A, "expired")[t] = conv[t]
  BY <1>3, <1>4, SettledConvs
<1>7. PICK c : c = [conv[t] EXCEPT !.at = "ending", !.ask = 0, !.tool = None,
                                   !.payload = None]
  OBVIOUS
<1>8. c \in Convs(Len(approvals)) /\ c.at = "ending"
  <2>1. 0 \in 0..Len(approvals)
    BY <1>4
  <2> QED
    BY <1>4, <1>7, <2>1 DEF Convs, Stages
<1>9. conv' = [Settled(A, "expired") EXCEPT ![t] = c]
  BY <1>3, <1>6, <1>7
<1>10. \A a \in DOMAIN approvals' :
          ~ (approvals'[a].status = "pending" /\ approvals'[a].turn = t)
  <2> SUFFICES ASSUME NEW a \in DOMAIN approvals',
                      approvals'[a].status = "pending", approvals'[a].turn = t
               PROVE  FALSE
    OBVIOUS
  <2>1. /\ a \in DOMAIN approvals /\ approvals[a].turn = t
        /\ approvals[a].status = "pending" /\ a \notin {b}
    BY <1>3, <1>4, DecidedRows DEF RowStates
  <2> QED
    BY <1>1, <1>4, <2>1 DEF Agree, RaisedOK
<1>11. RowTypes'
  BY <1>3 DEF TurnsInv, RowTypes
<1>12. RowOK(c, approvals') /\ TurnOK(c, turn'[t]) /\ conv[t].at \notin Quiet
  BY <1>3, <1>4, <1>8 DEF RowOK, AtRow, TurnOK, Quiet, ActiveTurn
<1> QED
  BY <1>3, <1>5, <1>8, <1>9, <1>10, <1>11, <1>12, SettledOwnStep

-----------------------------------------------------------------------------
(* A gated call asks for its approval                                      *)

\* The newest row comes last.
LEMMA AppendedRow ==
    ASSUME NEW rs \in Seq(Rows), NEW row \in Rows, NEW n \in Nat, n = Len(rs)
    PROVE  /\ Append(rs, row) \in Seq(Rows)
           /\ Len(Append(rs, row)) = n + 1
           /\ DOMAIN Append(rs, row) = 1..(n + 1)
           /\ Append(rs, row)[n + 1] = row
           /\ \A d \in 1..n : Append(rs, row)[d] = rs[d]
OBVIOUS

\* A new row for a call of turn t, raised when no row is pending.
LEMMA AppendAgrees ==
    ASSUME NEW cs, NEW rs, Agree(cs, rs),
           \A a \in DOMAIN rs : rs[a].status # "pending",
           NEW t \in Turns, NEW g \in Tools, NEW p \in Payloads,
           NEW row \in Rows, row.turn = t, row.payload = p,
           NEW c \in Convs(Len(rs) + 1), c.at = "requested", c.payload = p,
           c.ask = Len(rs) + 1
    PROVE  Agree([cs EXCEPT ![t] = c], Append(rs, row))
<1>1. PICK n \in Nat : n = Len(rs)
  BY DEF Agree
<1>2. PICK new : new = [cs EXCEPT ![t] = c]
  OBVIOUS
<1>3. PICK more : more = Append(rs, row)
  OBVIOUS
<1>4. /\ rs \in Seq(Rows) /\ cs \in [Turns -> Convs(n)]
      /\ \A x \in Turns : RowOK(cs[x], rs)
      /\ DOMAIN rs = 1..n
  BY <1>1 DEF Agree
<1>5. /\ more \in Seq(Rows) /\ Len(more) = n + 1 /\ DOMAIN more = 1..(n + 1)
      /\ more[n + 1] = row
      /\ \A a \in 1..n : more[a] = rs[a]
  BY <1>1, <1>3, <1>4, AppendedRow
<1>6. /\ \A x \in Turns : cs[x] \in Convs(n + 1)
      /\ new \in [Turns -> Convs(n + 1)] /\ new[t] = c
      /\ \A x \in Turns \ {t} : new[x] = cs[x]
  <2>1. 0..n \in SUBSET (0..(n + 1))
    BY <1>1
  <2>2. \A x \in Turns : cs[x] \in Convs(n + 1)
    BY <1>4, <2>1 DEF Convs
  <2>3. cs \in [Turns -> Convs(n + 1)]
    BY <1>4, <2>2
  <2> QED
    BY <1>1, <1>2, <2>2, <2>3
<1>7. ASSUME NEW x \in Turns
      PROVE  RowOK(new[x], more)
  <2>1. CASE x = t
    BY <1>1, <1>5, <1>6, <2>1 DEF RowOK, AtRow
  <2>2. CASE x # t
    <3>1. new[x] = cs[x] /\ RowOK(cs[x], rs)
      BY <1>4, <1>6, <2>2
    <3> QED
      BY <1>1, <1>4, <1>5, <3>1 DEF RowOK
  <2> QED
    BY <2>1, <2>2
<1>8. RaisedOK(new, more)
  <2> SUFFICES ASSUME NEW a \in DOMAIN more, more[a].status = "pending"
               PROVE  /\ a = Len(more)
                      /\ new[more[a].turn].ask = a
                      /\ new[more[a].turn].at \in Seeing
    BY DEF RaisedOK
  <2>1. a = n + 1
    <3>1. a \notin 1..n
      BY <1>4, <1>5
    <3> QED
      BY <1>1, <1>5, <3>1
  <2> QED
    BY <1>1, <1>5, <1>6, <2>1 DEF Seeing
<1> QED
  BY <1>2, <1>3, <1>5, <1>6, <1>7, <1>8 DEF Agree

\* A payload approved for the session has a newest row.
LEMMA NewestRow ==
    ASSUME approvals \in Seq(Rows), ApprovedStaysApproved, NEW p \in executed
    PROVE  LET same == {a \in DOMAIN approvals : approvals[a].payload = p}
           IN  Max(same) \in same /\ approvals[Max(same)].status = "approved"
<1> DEFINE same == {a \in DOMAIN approvals : approvals[a].payload = p}
<1>1. PICK a \in DOMAIN approvals :
         /\ approvals[a].payload = p /\ approvals[a].status = "approved"
         /\ \A b \in DOMAIN approvals : b > a => approvals[b].payload # p
  BY DEF ApprovedStaysApproved
<1>2. a \in same /\ \A y \in same : y \in Nat /\ a >= y
  <2>1. DOMAIN approvals \in SUBSET Nat
    OBVIOUS
  <2> QED
    BY <1>1, <2>1
<1> HIDE DEF same
<1>3. Max(same) \in same /\ \A y \in same : Max(same) >= y
  BY <1>2 DEF Max
<1>4. Max(same) = a
  BY <1>2, <1>3
<1> QED
  BY <1>1, <1>2, <1>4 DEF same

\* A call is refused: its conversation has no row.
LEMMA RefusedCallKeeps ==
    ASSUME TurnsInv, NEW t \in Turns, conv[t].at = "thinking",
           NEW g \in Tools, NEW p \in Payloads, NEW s \in {"thinking", "ending"},
           conv' = [[Settled(Due, "expired") EXCEPT ![t].tool = g, ![t].payload = p]
                       EXCEPT ![t].at = s, ![t].tool = None, ![t].payload = None],
           approvals' = Decided(Due, "expired"), RowTypes',
           turn' = turn, executed' = executed, chain' = chain
    PROVE  TurnsInv'
<1>1. PICK A \in SUBSET Pending : A = Due
  BY DEF Due
<1>2. /\ conv \in [Turns -> Convs(Len(approvals))] /\ Len(approvals) \in Nat
      /\ conv[t] \in Convs(Len(approvals)) /\ TurnOK(conv[t], turn[t])
      /\ Agree(conv, approvals)
  BY DEF TurnsInv, Agree
<1>3. PICK cs : cs = Settled(A, "expired")
  OBVIOUS
<1>4. /\ cs \in [Turns -> Convs(Len(approvals))] /\ cs[t] = conv[t]
      /\ Agree(cs, Decided(A, "expired"))
  BY <1>2, <1>3, SettledConvs, SettlingAgrees
<1>5. PICK c : c = [conv[t] EXCEPT !.tool = None, !.payload = None, !.at = s]
  OBVIOUS
<1>6. c \in Convs(Len(approvals)) /\ c.at = s
  BY <1>2, <1>5 DEF Convs, Stages
<1>7. conv' = [cs EXCEPT ![t] = c]
  <2>1. conv' = [[cs EXCEPT ![t].tool = g, ![t].payload = p]
                   EXCEPT ![t].at = s, ![t].tool = None, ![t].payload = None]
    BY <1>1, <1>3
  <2>2. c = [[[cs[t] EXCEPT !.tool = g, !.payload = p] EXCEPT !.at = s]
               EXCEPT !.tool = None, !.payload = None]
    BY <1>2, <1>4, <1>5 DEF Convs
  <2> QED
    BY <1>4, <2>1, <2>2
<1>8. \A a \in DOMAIN approvals' :
         ~ (approvals'[a].status = "pending" /\ approvals'[a].turn = t)
  <2>1. PICK rs : rs = approvals'
    OBVIOUS
  <2>2. cs[t].at \notin Seeing /\ Agree(cs, rs)
    BY <1>1, <1>4, <2>1 DEF Seeing
  <2> QED
    BY <2>1, <2>2, NotAwaiting
<1>9. RowOK(c, approvals') /\ TurnOK(c, turn'[t]) /\ conv[t].at \notin Quiet
  BY <1>2, <1>6 DEF RowOK, AtRow, TurnOK, Quiet, ActiveTurn
<1>10. /\ approvals' = Decided(A, "expired")
       /\ conv' = [Settled(A, "expired") EXCEPT ![t] = c]
       /\ \A x \in Turns \ {t} : turn'[x] = turn[x]
  BY <1>1, <1>3, <1>7
<1>11. "expired" \in {"approved", "denied", "expired"}
  OBVIOUS
<1> QED
  BY <1>6, <1>8, <1>9, <1>10, <1>11, SettledOwnStep, Zenon

\* A call finds a row of the same payload, approved or still pending.
LEMMA OldRowKeeps ==
    ASSUME TurnsInv, NEW t \in Turns, conv[t].at = "thinking",
           NEW g \in Tools, NEW p \in Payloads, NEW a \in DOMAIN approvals,
           approvals[a].payload = p,
           conv' = [[Settled(Due, "expired") EXCEPT ![t].tool = g, ![t].payload = p]
                       EXCEPT ![t].ask = a, ![t].at =
                          IF approvals[a].status = "approved" THEN "tool"
                          ELSE "requested"],
           approvals' = Decided(Due, "expired"), RowTypes',
           turn' = turn, executed' = executed, chain' = chain
    PROVE  TurnsInv'
<1>1. PICK A \in SUBSET Pending : A = Due
  BY DEF Due
<1>2. /\ conv \in [Turns -> Convs(Len(approvals))] /\ Len(approvals) \in Nat
      /\ conv[t] \in Convs(Len(approvals)) /\ TurnOK(conv[t], turn[t])
      /\ Agree(conv, approvals) /\ approvals \in Seq(Rows)
  BY DEF TurnsInv, Agree
<1>3. PICK cs : cs = Settled(A, "expired")
  OBVIOUS
<1>4. /\ cs \in [Turns -> Convs(Len(approvals))] /\ cs[t] = conv[t]
      /\ Agree(cs, Decided(A, "expired"))
  BY <1>2, <1>3, SettledConvs, SettlingAgrees
<1>5. PICK s \in {"tool", "requested"} :
         s = IF approvals[a].status = "approved" THEN "tool" ELSE "requested"
  OBVIOUS
<1>6. PICK c : c = [conv[t] EXCEPT !.tool = g, !.payload = p, !.ask = a, !.at = s]
  OBVIOUS
<1>7. c \in Convs(Len(approvals)) /\ c.at = s /\ c.ask = a /\ c.payload = p
  <2>1. a \in 0..Len(approvals) /\ s \in Stages
    BY <1>2 DEF Stages
  <2> QED
    BY <1>2, <1>6, <2>1 DEF Convs
<1>8. conv' = [cs EXCEPT ![t] = c]
  <2>1. conv' = [[cs EXCEPT ![t].tool = g, ![t].payload = p]
                    EXCEPT ![t].ask = a, ![t].at = s]
    BY <1>1, <1>3, <1>5
  <2> QED
    BY <1>4, <1>6, <2>1
<1>9. \A b \in DOMAIN approvals' :
         ~ (approvals'[b].status = "pending" /\ approvals'[b].turn = t)
  <2>1. PICK rs : rs = approvals'
    OBVIOUS
  <2>2. cs[t].at \notin Seeing /\ Agree(cs, rs)
    BY <1>1, <1>4, <2>1 DEF Seeing
  <2> QED
    BY <2>1, <2>2, NotAwaiting
<1>10. RowOK(c, approvals')
  <2>1. /\ a \in DOMAIN approvals' /\ approvals'[a].payload = p
        /\ approvals[a].status = "approved" => approvals'[a].status = "approved"
    BY <1>2, DecidedRows DEF RowStates
  <2> QED
    BY <1>5, <1>7, <2>1 DEF RowOK, AtRow
<1>11. TurnOK(c, turn'[t]) /\ conv[t].at \notin Quiet
  BY <1>2, <1>7 DEF TurnOK, Quiet
<1> QED
  BY <1>1, <1>3, <1>7, <1>8, <1>9, <1>10, <1>11, SettledOwnStep

\* A call that was not approved before gets a row of its own.
LEMMA NewRowKeeps ==
    ASSUME TurnsInv, NEW t \in Turns, conv[t].at = "thinking",
           NEW g \in Tools, NEW p \in Payloads, p \notin executed,
           Pending \ Due = {},
           conv' = [[Settled(Due, "expired") EXCEPT ![t].tool = g, ![t].payload = p]
                       EXCEPT ![t].at = "requested",
                              ![t].ask = Len(approvals) + 1],
           approvals' = Append(Decided(Due, "expired"),
                               [turn |-> t, tool |-> g, payload |-> p,
                                status |-> "pending", due |-> FALSE]),
           RowTypes', turn' = turn, executed' = executed, chain' = chain
    PROVE  TurnsInv'
<1>1. PICK A \in SUBSET Pending : A = Due
  BY DEF Due
<1>2. /\ conv \in [Turns -> Convs(Len(approvals))] /\ Len(approvals) \in Nat
      /\ conv[t] \in Convs(Len(approvals)) /\ TurnOK(conv[t], turn[t])
      /\ Agree(conv, approvals) /\ approvals \in Seq(Rows)
      /\ ApprovedStaysApproved
  BY DEF TurnsInv, Agree
<1>3. PICK cs : cs = Settled(A, "expired")
  OBVIOUS
<1>4. PICK rs : rs = Decided(A, "expired")
  OBVIOUS
<1>5. PICK row : row = [turn |-> t, tool |-> g, payload |-> p, status |-> "pending",
                        due |-> FALSE]
  OBVIOUS
<1>6. /\ cs \in [Turns -> Convs(Len(approvals))] /\ cs[t] = conv[t]
      /\ Agree(cs, rs)
      /\ \A x \in Turns : \/ cs[x].at = conv[x].at
                          \/ conv[x].at = "parked" /\ cs[x].at = "woken"
  BY <1>2, <1>3, <1>4, SettledConvs, SettlingAgrees
<1>7. /\ Len(rs) = Len(approvals) /\ DOMAIN rs = DOMAIN approvals
      /\ rs \in Seq(Rows)
      /\ \A a \in DOMAIN approvals :
            /\ rs[a].payload = approvals[a].payload
            /\ approvals[a].status = "approved" => rs[a].status = "approved"
      /\ \A a \in DOMAIN rs : rs[a].status # "pending"
  <2>1. \A a \in DOMAIN approvals : approvals[a].status = "pending" => a \in A
    BY <1>1 DEF Pending
  <2>2. "expired" \in RowStates /\ "expired" # "pending"
    BY DEF RowStates
  <2>3. /\ Len(rs) = Len(approvals) /\ DOMAIN rs = DOMAIN approvals
        /\ rs \in Seq(Rows)
        /\ \A a \in DOMAIN approvals :
              /\ rs[a].payload = approvals[a].payload
              /\ rs[a].status = IF a \in A /\ approvals[a].status = "pending"
                                THEN "expired" ELSE approvals[a].status
    BY <1>2, <1>4, <2>2, DecidedRows
  <2> QED
    BY <2>1, <2>2, <2>3
<1>8. /\ row \in Rows /\ row.turn = t /\ row.payload = p
      /\ row.status = "pending"
  BY <1>5 DEF Rows, RowStates
<1>9. PICK k \in Nat : k = Len(approvals) + 1
  BY <1>2
<1>10. PICK c : c = [conv[t] EXCEPT !.tool = g, !.payload = p,
                                    !.at = "requested", !.ask = k]
  OBVIOUS
<1>11. /\ c \in Convs(Len(rs) + 1) /\ c.at = "requested" /\ c.payload = p
       /\ c.ask = Len(rs) + 1
  <2>1. k \in 0..(Len(rs) + 1) /\ "requested" \in Stages
    BY <1>2, <1>7, <1>9 DEF Stages
  <2>2. k = Len(rs) + 1
    BY <1>7, <1>9
  <2> QED
    BY <1>2, <1>10, <2>1, <2>2 DEF Convs
<1>12. conv' = [cs EXCEPT ![t] = c]
  <2>1. conv' = [[cs EXCEPT ![t].tool = g, ![t].payload = p]
                    EXCEPT ![t].at = "requested", ![t].ask = k]
    BY <1>1, <1>3, <1>9
  <2> QED
    BY <1>6, <1>10, <2>1
<1>13. approvals' = Append(rs, row)
  BY <1>1, <1>4, <1>5
<1>14. Agree(conv', approvals')
  <2>1. Agree([cs EXCEPT ![t] = c], Append(rs, row))
    BY <1>6, <1>7, <1>8, <1>11, AppendAgrees
  <2> QED
    BY <1>12, <1>13, <2>1
<1>15. conv'[t] = c /\ \A x \in Turns \ {t} : conv'[x] = cs[x]
  BY <1>6, <1>12
<1>16. \A x \in Turns : TurnOK(conv'[x], turn'[x])
  <2>1. TurnOK(c, turn'[t])
    BY <1>2, <1>11 DEF TurnOK
  <2>2. {t} \in SUBSET Turns /\ \A x \in {t} : TurnOK(conv'[x], turn'[x])
    BY <1>15, <2>1
  <2>3. \A x \in Turns \ {t} :
           /\ turn'[x] = turn[x]
           /\ \/ conv'[x].at = conv[x].at
              \/ conv[x].at = "parked" /\ conv'[x].at = "woken"
    BY <1>6, <1>15
  <2> QED
    BY <2>2, <2>3, OthersKept
<1>17. ChainServes'
  BY <1>6, <1>15, ServedKept DEF Quiet
<1>18. ApprovedStaysApproved'
  <2> SUFFICES ASSUME NEW q \in executed
               PROVE  \E b \in DOMAIN approvals' :
                         /\ approvals'[b].payload = q
                         /\ approvals'[b].status = "approved"
                         /\ \A d \in DOMAIN approvals' :
                               d > b => approvals'[d].payload # q
    BY DEF ApprovedStaysApproved
  <2>1. PICK b \in DOMAIN approvals :
           /\ approvals[b].payload = q /\ approvals[b].status = "approved"
           /\ \A d \in DOMAIN approvals : d > b => approvals[d].payload # q
    BY <1>2 DEF ApprovedStaysApproved
  <2>2. /\ DOMAIN approvals' = 1..k /\ DOMAIN approvals = 1..(k - 1)
        /\ approvals'[k] = row
        /\ \A d \in 1..(k - 1) : approvals'[d] = rs[d]
    <3>1. PICK n \in Nat : n = Len(rs)
      BY <1>2, <1>7
    <3>2. k = n + 1 /\ DOMAIN approvals = 1..n
      BY <1>2, <1>7, <1>9, <3>1
    <3>3. /\ DOMAIN Append(rs, row) = 1..(n + 1)
          /\ Append(rs, row)[n + 1] = row
          /\ \A d \in 1..n : Append(rs, row)[d] = rs[d]
      <4>1. rs \in Seq(Rows) /\ row \in Rows
        BY <1>7, <1>8
      <4> QED
        BY <3>1, <4>1, AppendedRow
    <3>4. n = k - 1
      BY <3>1, <3>2
    <3> QED
      BY <1>13, <3>2, <3>3, <3>4
  <2>3. /\ b \in DOMAIN approvals' /\ approvals'[b].payload = q
        /\ approvals'[b].status = "approved"
    BY <1>7, <1>9, <2>1, <2>2
  <2>4. ASSUME NEW d \in DOMAIN approvals', d > b
        PROVE  approvals'[d].payload # q
    <3>1. CASE d = k
      BY <1>8, <2>2, <3>1
    <3>2. CASE d # k
      <4>1. d \in 1..(k - 1)
        BY <1>9, <2>2, <3>2
      <4> QED
        BY <1>7, <2>1, <2>2, <2>4, <4>1
    <3> QED
      BY <3>1, <3>2
  <2> QED
    BY <2>3, <2>4
<1> QED
  BY <1>14, <1>16, <1>17, <1>18 DEF TurnsInv, Agree, RaisedOK

\* A gated call is approved by an old row, waits on a row, or is refused.
LEMMA RequestApprovalKeeps ==
    ASSUME TurnsInv, NEW t \in Turns, NEW g \in Tools, NEW p \in Payloads,
           RequestApproval(t, g, p)
    PROVE  TurnsInv'
<1>1. PICK st : st = [Expired EXCEPT !.conv[t].tool = g, !.conv[t].payload = p]
  OBVIOUS
<1>2. /\ conv[t].at = "thinking" /\ calls < MaxCalls /\ calls' = calls + 1
      /\ UNCHANGED <<turn, executed, enabled, chain, registered, crashes, switches>>
  BY DEF RequestApproval
<1>3. /\ st.approvals = Decided(Due, "expired")
      /\ st.conv = [Settled(Due, "expired") EXCEPT ![t].tool = g, ![t].payload = p]
      /\ st.session = IF Due # {} /\ session = "waiting" THEN "open" ELSE session
  BY <1>1 DEF Expired
<1>4. approvals \in Seq(Rows) /\ ApprovedStaysApproved
  BY DEF TurnsInv, Agree
<1>5. session' \in {"none", "open"} \cup ActiveTurn => RowTypes'
  BY <1>2, TurnsAssumption DEF TurnsInv, RowTypes
<1>6. st.session \in {"none", "open"} \cup ActiveTurn
  BY <1>3 DEF TurnsInv, RowTypes
<1>7. CASE RowFor(t, g, p, st)
  <2> DEFINE same == {a \in DOMAIN approvals : approvals[a].payload = p}
             old == IF p \in executed THEN {Max(same)}
                    ELSE {a \in (Pending \ Due) \cap same : approvals[a].tool = g}
  <2>1. CASE \E a \in old :
                /\ conv' = [st.conv EXCEPT ![t].ask = a, ![t].at =
                               IF approvals[a].status = "approved" THEN "tool"
                               ELSE "requested"]
                /\ approvals' = st.approvals /\ session' = st.session
    <3>1. PICK a \in old :
             /\ conv' = [st.conv EXCEPT ![t].ask = a, ![t].at =
                            IF approvals[a].status = "approved" THEN "tool"
                            ELSE "requested"]
             /\ approvals' = st.approvals /\ session' = st.session
      BY <2>1
    <3>2. a \in DOMAIN approvals /\ approvals[a].payload = p
      BY <1>4, NewestRow
    <3>3. /\ conv' = [[Settled(Due, "expired") EXCEPT ![t].tool = g,
                                                      ![t].payload = p]
                          EXCEPT ![t].ask = a, ![t].at =
                             IF approvals[a].status = "approved" THEN "tool"
                             ELSE "requested"]
          /\ approvals' = Decided(Due, "expired") /\ RowTypes'
      BY <1>3, <1>5, <1>6, <3>1
    <3> QED
      BY <1>2, <3>2, <3>3, OldRowKeeps
  <2>2. CASE old = {} /\ Pending \ Due = {} /\ NewRow(t, g, p, st)
    <3>1. p \notin executed
      BY <2>2
    <3>2. session' \in {"none", "open"} \cup ActiveTurn
      BY <2>2 DEF NewRow, ActiveTurn
    <3> QED
      BY <1>2, <1>3, <1>5, <2>2, <3>1, <3>2, NewRowKeeps DEF NewRow
  <2> QED
    BY <1>7, <2>1, <2>2 DEF RowFor
<1>8. CASE /\ \E s \in {"thinking", "ending"} :
                 conv' = [st.conv EXCEPT ![t].at = s, ![t].tool = None,
                                         ![t].payload = None]
           /\ approvals' = st.approvals /\ session' = st.session
  <2>1. PICK s \in {"thinking", "ending"} :
           conv' = [st.conv EXCEPT ![t].at = s, ![t].tool = None,
                                         ![t].payload = None]
    BY <1>8
  <2>2. conv' = [[Settled(Due, "expired") EXCEPT ![t].tool = g, ![t].payload = p]
                    EXCEPT ![t].at = s, ![t].tool = None, ![t].payload = None]
    BY <1>3, <2>1
  <2>3. approvals' = Decided(Due, "expired") /\ RowTypes'
    BY <1>3, <1>5, <1>6, <1>8
  <2> QED
    BY <1>2, <2>2, <2>3, RefusedCallKeeps
<1> QED
  BY <1>1, <1>7, <1>8 DEF RequestApproval

-----------------------------------------------------------------------------
(* Deadlines, switches and restarts                                        *)

\* A deadline passes: the row is as pending as before.
LEMMA DeadlineRows ==
    ASSUME approvals \in Seq(Rows), NEW a \in DOMAIN approvals, Deadline(a)
    PROVE  /\ approvals' \in Seq(Rows)
           /\ Len(approvals') = Len(approvals)
           /\ DOMAIN approvals' = DOMAIN approvals
           /\ \A b \in DOMAIN approvals :
                 /\ approvals'[b].turn = approvals[b].turn
                 /\ approvals'[b].payload = approvals[b].payload
                 /\ approvals'[b].status = approvals[b].status
<1>1. PICK row : row = [approvals[a] EXCEPT !.due = TRUE]
  OBVIOUS
<1>2. approvals[a] \in Rows
  OBVIOUS
<1>3. /\ row \in Rows /\ row.turn = approvals[a].turn
      /\ row.payload = approvals[a].payload /\ row.status = approvals[a].status
  BY <1>1, <1>2 DEF Rows
<1>4. approvals' = [approvals EXCEPT ![a] = row]
  BY <1>1 DEF Deadline
<1> QED
  BY <1>3, <1>4

\* No conversation hears of a deadline.
LEMMA DeadlineKeeps ==
    ASSUME TurnsInv, NEW a \in DOMAIN approvals, Deadline(a)
    PROVE  TurnsInv'
<1>1. PICK rs : rs = approvals'
  OBVIOUS
<1>2. /\ approvals \in Seq(Rows) /\ conv \in [Turns -> Convs(Len(approvals))]
      /\ \A t \in Turns : RowOK(conv[t], approvals)
      /\ RaisedOK(conv, approvals) /\ ApprovedStaysApproved
  BY DEF TurnsInv, Agree
<1>3. /\ rs \in Seq(Rows) /\ Len(rs) = Len(approvals)
      /\ DOMAIN rs = DOMAIN approvals
      /\ \A b \in DOMAIN approvals :
            /\ rs[b].turn = approvals[b].turn
            /\ rs[b].payload = approvals[b].payload
            /\ rs[b].status = approvals[b].status
  BY <1>1, <1>2, DeadlineRows
<1>4. UNCHANGED <<session, turn, executed, enabled, conv, chain, registered,
                  calls, crashes, switches>>
  BY DEF Deadline, counts
<1>5. \A t \in Turns : RowOK(conv[t], rs)
  BY <1>2, <1>3 DEF RowOK
<1>6. RaisedOK(conv, rs)
  BY <1>2, <1>3 DEF RaisedOK
<1>7. Agree(conv', approvals')
  BY <1>1, <1>2, <1>3, <1>4, <1>5, <1>6 DEF Agree
<1>8. ApprovedStaysApproved'
  BY <1>1, <1>2, <1>3, <1>4, ApprovedKept
<1>9. RowTypes' /\ ChainServes' /\ \A t \in Turns : TurnOK(conv'[t], turn'[t])
  BY <1>4 DEF TurnsInv, RowTypes, ChainServes
<1> QED
  BY <1>7, <1>8, <1>9 DEF TurnsInv, Agree, RaisedOK

\* The invariant says nothing of the agent's switch.
LEMMA SetEnabledKeeps ==
    ASSUME TurnsInv, SetEnabled
    PROVE  TurnsInv'
<1>1. UNCHANGED <<session, turn, approvals, executed, conv, chain, registered,
                  calls, crashes>>
  BY DEF SetEnabled, rows
<1>2. enabled' \in BOOLEAN /\ switches' \in 0..MaxSwitches
  BY TurnsAssumption DEF SetEnabled, TurnsInv, RowTypes
<1>3. RowTypes'
  BY <1>1, <1>2 DEF TurnsInv, RowTypes
<1>4. ApprovedStaysApproved' /\ ChainServes'
  BY <1>1 DEF TurnsInv, ApprovedStaysApproved, ChainServes
<1> QED
  BY <1>1, <1>3, <1>4 DEF TurnsInv, Agree, RaisedOK

\* A restart closes every pending row and leaves no conversation.
LEMMA RestartKeeps ==
    ASSUME TurnsInv, Restart
    PROVE  TurnsInv'
<1>1. /\ turn' = [t \in Turns |-> IF turn[t] \in ActiveTurn THEN "failed"
                                  ELSE turn[t]]
      /\ session' = IF session = "none" THEN "none" ELSE "open"
      /\ approvals' = Decided(Pending, "expired")
      /\ conv' = [t \in Turns |-> IF conv[t].at = "idle" THEN conv[t]
                                  ELSE [Idle EXCEPT !.at = "over"]]
      /\ chain' = << >> /\ registered' = None
      /\ crashes < MaxCrashes /\ crashes' = crashes + 1
      /\ UNCHANGED <<executed, enabled, calls, switches>>
  BY DEF Restart
<1>2. /\ approvals \in Seq(Rows) /\ ApprovedStaysApproved
      /\ Len(approvals) \in Nat
      /\ conv \in [Turns -> Convs(Len(approvals))]
      /\ \A t \in Turns : TurnOK(conv[t], turn[t])
  BY DEF TurnsInv, Agree
<1>3. PICK rs : rs = approvals'
  OBVIOUS
<1>4. PICK cs : cs = conv'
  OBVIOUS
<1>5. /\ rs \in Seq(Rows) /\ Len(rs) = Len(approvals)
      /\ \A a \in DOMAIN rs : rs[a].status # "pending"
  <2>1. /\ rs \in Seq(Rows) /\ Len(rs) = Len(approvals)
        /\ DOMAIN rs = DOMAIN approvals
        /\ \A a \in DOMAIN approvals :
              rs[a].status = IF a \in Pending /\ approvals[a].status = "pending"
                             THEN "expired" ELSE approvals[a].status
    BY <1>1, <1>2, <1>3, DecidedRows DEF RowStates
  <2> QED
    BY <2>1 DEF Pending
<1>6. PICK o : o = [Idle EXCEPT !.at = "over"]
  OBVIOUS
<1>7. o \in Convs(Len(approvals)) /\ o.at = "over"
  BY <1>2, <1>6, OverConv
<1>8. cs = [t \in Turns |-> IF conv[t].at = "idle" THEN conv[t] ELSE o]
  BY <1>1, <1>4, <1>6
<1>9. /\ cs \in [Turns -> Convs(Len(approvals))]
      /\ \A t \in Turns : \/ cs[t].at = "over"
                          \/ cs[t].at = "idle" /\ cs[t] = conv[t]
  BY <1>2, <1>7, <1>8
<1>10. \A t \in Turns : RowOK(cs[t], rs)
  BY <1>9 DEF RowOK, AtRow
<1>11. Agree(conv', approvals')
  BY <1>3, <1>4, <1>5, <1>9, <1>10 DEF Agree, RaisedOK
<1>12. \A t \in Turns : TurnOK(conv'[t], turn'[t])
  BY <1>1, <1>2, <1>4, <1>9 DEF TurnOK, ActiveTurn
<1>13. ChainServes'
  BY <1>4, <1>9 DEF ChainServes, Quiet
<1>14. ApprovedStaysApproved'
  BY <1>1, <1>2, DecidingKeepsApproved DEF RowStates
<1>15. RowTypes'
  <2>1. turn' \in [Turns -> {"none"} \cup ActiveTurn \cup TerminalTurn]
    BY <1>1 DEF TurnsInv, RowTypes, TerminalTurn
  <2>2. crashes' \in 0..MaxCrashes
    BY <1>1, TurnsAssumption DEF TurnsInv, RowTypes
  <2>3. << >> \in Seq(Turns)
    OBVIOUS
  <2> QED
    BY <1>1, <2>1, <2>2, <2>3 DEF TurnsInv, RowTypes
<1> QED
  BY <1>11, <1>12, <1>13, <1>14, <1>15 DEF TurnsInv, Agree, RaisedOK

\* The mark of an undelivered reply is put on and taken off a turn that is over.
LEMMA ReplyDeliveryKeeps ==
    ASSUME TurnsInv, NEW t \in Turns, NEW delivered \in BOOLEAN,
           ReplyDelivery(t, delivered)
    PROVE  TurnsInv'
<1>1. UNCHANGED <<session, approvals, executed, enabled, conv, chain, registered,
                  calls, crashes, switches>>
  BY DEF ReplyDelivery, counts
<1>2. /\ turn \in [Turns -> {"none"} \cup ActiveTurn \cup TerminalTurn]
      /\ \A x \in Turns : TurnOK(conv[x], turn[x])
  BY DEF TurnsInv, RowTypes
<1>3. PICK s \in {"succeeded", "undelivered"} : turn' = [turn EXCEPT ![t] = s]
  BY DEF ReplyDelivery
<1>4. turn[t] \in {"succeeded", "undelivered"}
  BY DEF ReplyDelivery
<1>5. RowTypes'
  BY <1>1, <1>2, <1>3 DEF TurnsInv, RowTypes, TerminalTurn
<1>6. \A x \in Turns : TurnOK(conv'[x], turn'[x])
  BY <1>1, <1>2, <1>3, <1>4 DEF TurnOK, ActiveTurn
<1>7. ApprovedStaysApproved' /\ ChainServes'
  BY <1>1 DEF TurnsInv, ApprovedStaysApproved, ChainServes
<1> QED
  BY <1>1, <1>5, <1>6, <1>7 DEF TurnsInv, Agree, RaisedOK

-----------------------------------------------------------------------------
(* The theorems                                                            *)

\* The invariant holds at first: there are no rows and no conversation.
LEMMA TurnsInvInit == Init => TurnsInv
<1> SUFFICES ASSUME Init
             PROVE  TurnsInv
  OBVIOUS
<1>1. /\ approvals = << >> /\ Len(approvals) = 0 /\ DOMAIN approvals = {}
      /\ approvals \in Seq(Rows)
  BY DEF Init
<1>2. Idle \in Convs(0) /\ Idle.at = "idle"
  <2>1. 0 \in 0..0 /\ "idle" \in Stages
    BY DEF Stages
  <2> QED
    BY <2>1 DEF Convs, Idle
<1>3. /\ conv \in [Turns -> Convs(0)]
      /\ \A t \in Turns : conv[t].at = "idle" /\ turn[t] = "none"
  BY <1>2 DEF Init
<1>4. Agree(conv, approvals)
  BY <1>1, <1>3 DEF Agree, RowOK, AtRow, RaisedOK
<1>5. RowTypes
  BY TurnsAssumption DEF Init, RowTypes
<1>6. ApprovedStaysApproved
  BY DEF Init, ApprovedStaysApproved
<1>7. ChainServes /\ \A t \in Turns : TurnOK(conv[t], turn[t])
  BY <1>3 DEF ChainServes, Quiet, TurnOK
<1> QED
  BY <1>4, <1>5, <1>6, <1>7 DEF TurnsInv

\* Every step preserves it.
LEMMA TurnsInvNext == TurnsInv /\ [Next]_vars => TurnsInv'
<1> SUFFICES ASSUME TurnsInv, [Next]_vars
             PROVE  TurnsInv'
  OBVIOUS
<1>1. CASE OpenSession
  BY <1>1, OpenSessionKeeps
<1>2. CASE ExpireDue
  BY <1>2, ExpireDueKeeps
<1>3. CASE SetEnabled
  BY <1>3, SetEnabledKeeps
<1>4. CASE Restart
  BY <1>4, RestartKeeps
<1>5. ASSUME NEW t \in Turns,
             \/ Send(t) \/ Start(t) \/ Leave(t) \/ Stop(t)
             \/ BeginTurn(t) \/ BeginRefused(t) \/ CompleteTurn(t)
             \/ WaitOnApproval(t) \/ BrokerTimeout(t) \/ ResumeTurn(t)
             \/ CloseApproval(t) \/ RunTool(t)
             \/ \E delivered \in BOOLEAN : ReplyDelivery(t, delivered)
             \/ \E g \in Tools, p \in Payloads : RequestApproval(t, g, p)
      PROVE  TurnsInv'
  <2>1. BrokerTimeout(t) => TurnsInv'
    BY ExpireDueKeeps DEF BrokerTimeout
  <2> QED
    BY <1>5, <2>1, SendKeeps, StartKeeps, LeaveKeeps, StopKeeps, BeginTurnKeeps,
       BeginRefusedKeeps, CompleteTurnKeeps, WaitKeeps, ResumeTurnKeeps,
       CloseApprovalKeeps, RunToolKeeps, ReplyDeliveryKeeps, RequestApprovalKeeps
<1>6. ASSUME NEW a \in DOMAIN approvals,
             Deadline(a) \/ \E s \in {"approved", "denied"} : Decide(a, s)
      PROVE  TurnsInv'
  BY <1>6, DeadlineKeeps, DecideKeeps
<1>7. CASE UNCHANGED vars
  <2>1. UNCHANGED <<session, turn, approvals, executed, enabled, conv, chain,
                    registered, calls, crashes, switches>>
    BY <1>7 DEF vars
  <2>2. RowTypes' /\ ApprovedStaysApproved' /\ ChainServes'
    BY <2>1 DEF TurnsInv, RowTypes, ApprovedStaysApproved, ChainServes
  <2> QED
    BY <2>1, <2>2 DEF TurnsInv, Agree, RaisedOK
<1> QED
  BY <1>1, <1>2, <1>3, <1>4, <1>5, <1>6, <1>7 DEF Next

\* Rows and conversations agree, always.
THEOREM TurnsAgree == Spec => []TurnsInv
BY TurnsInvInit, TurnsInvNext, PTL DEF Spec

\* The rows and the conversations stay in states the code knows, for every
\* number of turns and every bound.
THEOREM TurnsTypeCorrect == Spec => []TypeOK
<1>1. TurnsInv => TypeOK
  BY TypeSplit DEF TurnsInv, Agree
<1> QED
  BY <1>1, TurnsAgree, PTL

\* An ask-first tool never runs with arguments that nobody approved, whatever
\* the interleaving of decisions, deadlines, stops, restarts and turns.  (The
\* tool it was approved for may be another: the lookup does not ask for it.)
THEOREM ToolAlwaysApproved == Spec => []ToolWasApproved
<1>1. TurnsInv => ToolWasApproved
  BY DEF TurnsInv, Agree, RowOK, AtRow, ToolWasApproved
<1> QED
  BY <1>1, TurnsAgree, PTL

\* There is never more than one pending approval, and its turn is going to see
\* to it: no stop, deadline or failed call leaves one behind.
THEOREM PendingAlwaysAwaited == Spec => []PendingIsAwaited
<1>1. ASSUME TurnsInv
      PROVE  PendingIsAwaited
  <2>1. /\ approvals \in Seq(Rows) /\ RaisedOK(conv, approvals)
        /\ \A t \in Turns : TurnOK(conv[t], turn[t])
    BY <1>1 DEF TurnsInv, Agree
  <2>2. Pending \in SUBSET {Len(approvals)}
    BY <2>1 DEF RaisedOK, Pending
  <2>3. Cardinality(Pending) <= 1
    <3>1. IsFiniteSet({Len(approvals)}) /\ Cardinality({Len(approvals)}) = 1
      BY FS_Singleton
    <3> QED
      BY <2>2, <3>1, FS_Subset
  <2>4. ASSUME NEW a \in Pending
        PROVE  LET t == approvals[a].turn
               IN  /\ turn[t] \in ActiveTurn
                   /\ conv[t].ask = a
                   /\ conv[t].at \in {"requested", "parked", "woken"}
    <3>1. /\ a \in DOMAIN approvals /\ approvals[a].status = "pending"
          /\ approvals[a].turn \in Turns
      BY <2>1, RowFields DEF Pending
    <3>2. PICK t \in Turns : t = approvals[a].turn
      BY <3>1
    <3>3. conv[t].ask = a /\ conv[t].at \in Seeing /\ TurnOK(conv[t], turn[t])
      BY <2>1, <3>1, <3>2 DEF RaisedOK
    <3> QED
      BY <3>2, <3>3 DEF Seeing, TurnOK, ActiveTurn
  <2> QED
    BY <2>3, <2>4 DEF PendingIsAwaited
<1> QED
  BY <1>1, TurnsAgree, PTL

\* A payload approved for the session is found approved, always: it is never
\* asked about again.
THEOREM ApprovalsKept == Spec => []ApprovedStaysApproved
<1>1. TurnsInv => ApprovedStaysApproved
  BY DEF TurnsInv
<1> QED
  BY <1>1, TurnsAgree, PTL

\* What a step may make of the status of a turn that has ended.
Ended(old, new) ==
    /\ old \in {"failed", "cancelled"} => new = old
    /\ old \in {"succeeded", "undelivered"} => new \in {"succeeded", "undelivered"}

\* A turn that has ended keeps its status, but for the mark of an undelivered
\* reply: every other step that writes the status of a turn finds it not yet
\* begun, running or waiting.
LEMMA EndedTurnsKept ==
    ASSUME TurnsInv, Next, NEW x \in Turns
    PROVE  Ended(turn[x], turn'[x])
<1>1. /\ \A t \in Turns : TurnOK(conv[t], turn[t])
      /\ turn \in [Turns -> {"none"} \cup ActiveTurn \cup TerminalTurn]
  BY DEF TurnsInv, RowTypes
<1> DEFINE Begun(t) == turn[t] \in {"none", "running", "waiting"}
<1>2. ASSUME NEW t \in Turns, NEW s, Begun(t), turn' = [turn EXCEPT ![t] = s]
      PROVE  Ended(turn[x], turn'[x])
  BY <1>1, <1>2 DEF Ended
<1>3. ASSUME turn' = turn
      PROVE  Ended(turn[x], turn'[x])
  BY <1>3 DEF Ended
<1>4. ASSUME NEW t \in Turns, BeginTurn(t)
      PROVE  Ended(turn[x], turn'[x])
  <2>1. turn[t] = "none" /\ turn' = [turn EXCEPT ![t] = "running"]
    BY <1>1, <1>4 DEF BeginTurn, TurnOK
  <2> QED
    BY <1>2, <2>1
<1>5. ASSUME NEW t \in Turns, CompleteTurn(t)
      PROVE  Ended(turn[x], turn'[x])
  <2>1. Begun(t)
    BY <1>1, <1>5 DEF CompleteTurn, TurnOK, ActiveTurn
  <2>2. PICK s : turn' = [turn EXCEPT ![t] = s]
    BY <1>5 DEF CompleteTurn, Finish
  <2> QED
    BY <1>1, <2>1, <2>2 DEF Ended
<1>6. ASSUME NEW t \in Turns, WaitOnApproval(t)
      PROVE  Ended(turn[x], turn'[x])
  <2>1. /\ turn[t] = "running"
        /\ turn' = turn \/ turn' = [turn EXCEPT ![t] = "waiting"]
    BY <1>1, <1>6 DEF WaitOnApproval, TurnOK
  <2> QED
    BY <1>2, <1>3, <2>1
<1>7. ASSUME NEW t \in Turns, ResumeTurn(t)
      PROVE  Ended(turn[x], turn'[x])
  <2>1. turn[t] = "waiting" /\ turn' = [turn EXCEPT ![t] = "running"]
    BY <1>1, <1>7 DEF ResumeTurn, TurnOK
  <2> QED
    BY <1>2, <2>1
<1>8. Restart => Ended(turn[x], turn'[x])
  BY <1>1 DEF Restart, ActiveTurn, Ended
<1>9. ASSUME NEW t \in Turns, NEW delivered \in BOOLEAN, ReplyDelivery(t, delivered)
      PROVE  Ended(turn[x], turn'[x])
  <2>1. /\ turn[t] \in {"succeeded", "undelivered"}
        /\ \E s \in {"succeeded", "undelivered"} : turn' = [turn EXCEPT ![t] = s]
    BY <1>9 DEF ReplyDelivery
  <2>2. turn'[t] \in {"succeeded", "undelivered"} /\ (x # t => turn'[x] = turn[x])
    BY <1>1, <2>1
  <2> QED
    BY <2>1, <2>2 DEF Ended
<1>10. OpenSession \/ ExpireDue \/ SetEnabled => turn' = turn
  BY DEF OpenSession, ExpireDue, SetEnabled, rows
<1>11. ASSUME NEW t \in Turns,
              \/ Send(t) \/ Start(t) \/ Leave(t) \/ Stop(t)
              \/ BeginRefused(t) \/ BrokerTimeout(t) \/ CloseApproval(t)
              \/ RunTool(t)
              \/ \E g \in Tools, p \in Payloads : RequestApproval(t, g, p)
       PROVE  turn' = turn
  BY <1>11 DEF Send, Start, Leave, Stop, BeginRefused, BrokerTimeout, ExpireDue,
               CloseApproval, RunTool, RequestApproval, rows
<1>12. ASSUME NEW a \in DOMAIN approvals,
              Deadline(a) \/ \E s \in {"approved", "denied"} : Decide(a, s)
       PROVE  turn' = turn
  BY <1>12 DEF Deadline, Decide, ExpireDue
<1> QED
  BY <1>3, <1>4, <1>5, <1>6, <1>7, <1>8, <1>9, <1>10, <1>11, <1>12 DEF Next

\* A decided approval keeps its status: only pending rows are decided, and a
\* new one comes after those there are.
LEMMA DecidedRowsKept ==
    ASSUME TurnsInv, Next, NEW x \in DOMAIN approvals,
           approvals[x].status # "pending"
    PROVE  approvals'[x].status = approvals[x].status
<1>1. approvals \in Seq(Rows)
  BY DEF TurnsInv, Agree
<1>2. ASSUME NEW A, NEW s \in RowStates
      PROVE  Decided(A, s)[x].status = approvals[x].status
  BY <1>1, DecidedRows
<1>3. ExpireDue => approvals'[x].status = approvals[x].status
  BY <1>2 DEF ExpireDue, Expired, RowStates
<1>4. OpenSession \/ SetEnabled => approvals' = approvals
  BY DEF OpenSession, SetEnabled, rows
<1>5. Restart => approvals'[x].status = approvals[x].status
  BY <1>2 DEF Restart, RowStates
<1>6. ASSUME NEW t \in Turns,
             \/ Send(t) \/ Start(t) \/ Leave(t) \/ Stop(t)
             \/ BeginTurn(t) \/ BeginRefused(t) \/ WaitOnApproval(t)
             \/ ResumeTurn(t) \/ RunTool(t)
             \/ \E delivered \in BOOLEAN : ReplyDelivery(t, delivered)
      PROVE  approvals' = approvals
  BY <1>6 DEF Send, Start, Leave, Stop, BeginTurn, BeginRefused,
              WaitOnApproval, ResumeTurn, RunTool, ReplyDelivery, rows
<1>7. ASSUME NEW t \in Turns, CompleteTurn(t) \/ CloseApproval(t)
      PROVE  approvals'[x].status = approvals[x].status
  <2>1. \E A : approvals' = Decided(A, "expired")
    BY <1>7 DEF CompleteTurn, Finish, CloseApproval
  <2> QED
    BY <1>2, <2>1 DEF RowStates
<1>8. ASSUME NEW t \in Turns, NEW g \in Tools, NEW p \in Payloads,
             RequestApproval(t, g, p)
      PROVE  approvals'[x].status = approvals[x].status
  <2>1. PICK st : st = [Expired EXCEPT !.conv[t].tool = g, !.conv[t].payload = p]
    OBVIOUS
  <2>2. st.approvals = Decided(Due, "expired")
    BY <2>1 DEF Expired
  <2>3. CASE approvals' = st.approvals
    BY <1>2, <2>2, <2>3 DEF RowStates
  <2>4. CASE NewRow(t, g, p, st)
    <3>1. PICK row, rs : /\ approvals' = Append(rs, row)
                         /\ row = [turn |-> t, tool |-> g, payload |-> p,
                                   status |-> "pending", due |-> FALSE]
                         /\ rs = Decided(Due, "expired")
      BY <2>2, <2>4 DEF NewRow
    <3>2. row \in Rows
      BY <3>1 DEF Rows, RowStates
    <3>3. rs \in Seq(Rows) /\ DOMAIN rs = DOMAIN approvals
      BY <1>1, <3>1, DecidedRows DEF RowStates
    <3>4. PICK n \in Nat : n = Len(rs)
      BY <3>3
    <3>5. approvals'[x] = rs[x]
      <4>1. x \in 1..n
        BY <3>3, <3>4
      <4> QED
        BY <3>1, <3>2, <3>3, <3>4, <4>1, AppendedRow
    <3> QED
      BY <1>2, <3>1, <3>5 DEF RowStates
  <2> QED
    BY <1>8, <2>1, <2>3, <2>4 DEF RequestApproval, RowFor
<1>9. ASSUME NEW a \in DOMAIN approvals, Deadline(a)
      PROVE  approvals'[x].status = approvals[x].status
  BY <1>1, <1>9, DeadlineRows
<1>10. ASSUME NEW a \in DOMAIN approvals, NEW s \in {"approved", "denied"},
              Decide(a, s)
       PROVE  approvals'[x].status = approvals[x].status
  <2>1. \/ ExpireDue
        \/ approvals' = Decided({a}, "expired")
        \/ approvals' = Decided({a}, s)
    BY <1>10 DEF Decide
  <2> QED
    BY <1>2, <1>3, <2>1 DEF RowStates
<1>11. ASSUME NEW t \in Turns, BrokerTimeout(t)
       PROVE  approvals'[x].status = approvals[x].status
  BY <1>3, <1>11 DEF BrokerTimeout
<1> QED
  BY <1>3, <1>4, <1>5, <1>6, <1>7, <1>8, <1>9, <1>10, <1>11 DEF Next

\* What is decided is final: no late decision, expiry or restart changes the
\* status of a turn that failed or was cancelled, or of a decided approval, and
\* a turn that succeeded only ever gains or loses the mark of an undelivered
\* reply.
THEOREM FinalAlwaysFinal == Spec => FinalStaysFinal
<1> DEFINE Final ==
       /\ \A t \in Turns :
             /\ turn[t] \in {"failed", "cancelled"} => turn'[t] = turn[t]
             /\ turn[t] \in {"succeeded", "undelivered"} =>
                    turn'[t] \in {"succeeded", "undelivered"}
       /\ \A a \in DOMAIN approvals \ Pending :
             approvals'[a].status = approvals[a].status
<1>1. TurnsInv /\ [Next]_vars => [Final]_vars
  <2> SUFFICES ASSUME TurnsInv, Next
               PROVE  Final
    OBVIOUS
  <2>1. \A t \in Turns : Ended(turn[t], turn'[t])
    BY EndedTurnsKept
  <2>2. \A a \in DOMAIN approvals \ Pending :
           approvals'[a].status = approvals[a].status
    BY DecidedRowsKept DEF Pending
  <2> QED
    BY <2>1, <2>2 DEF Ended
<1> HIDE DEF Final
<1>2. Spec => [][Final]_vars
  BY <1>1, TurnsAgree, PTL DEF Spec
<1> QED
  BY <1>2 DEF Final, FinalStaysFinal
=============================================================================
