------------------------ MODULE RetrySession_proofs ------------------------
(***************************************************************************)
(* No retry is left behind, for any number of stages and requests: what    *)
(* the requests hold and wait for, around the start and the end of the     *)
(* session that serves them.                                               *)
(***************************************************************************)
EXTENDS RetrySession, TLAPS

\* A request that holds its stage in retryInFlight.
Holds(c) == pc[c] \in InProgress \cup {"held"}

\* The inductive invariant: outside a session no stage is a root, and a request
\* that holds a stage has one.
RetryInv ==
    /\ stage \in [Calls -> Stages \cup {NoStage}] /\ DOMAIN pc = Calls
    /\ inFlight \subseteq Stages /\ owner \in Stages \cup {NoStage}
    /\ \A c \in Calls : Holds(c) => stage[c] \in Stages
    /\ ~Active => \A s \in Stages : roots[s] = 0
    /\ StagesHeld
    /\ OwnerAtWork

\* No request is under way at first.
LEMMA RetryInit == Init => RetryInv
BY RetryAssumption DEF Init, RetryInv, StagesHeld,
       OwnerAtWork, Holds, InProgress, Nothing, Active

\* A step that moves requests from one point to another, neither to nor from a
\* wait, keeps the invariant.
LEMMA MoveKeeps ==
    ASSUME RetryInv, NEW c \in Calls, NEW p \in InProgress \ {"waiting"},
           Holds(c), pc[c] # "held",
           p \in {"adding", "awaiting"} => Active,
           p = "awaiting" => stage[c] \notin terminal,
           pc' = [pc EXCEPT ![c] = p],
           UNCHANGED <<stage, inFlight, owner, phase, terminal>>,
           Active \/ UNCHANGED roots
    PROVE  RetryInv'
<1>1. /\ pc'[c] = p /\ \A d \in Calls : d # c => pc'[d] = pc[d]
      /\ DOMAIN pc' = Calls
  BY DEF RetryInv
<1>2. \A d \in Calls : Holds(d)' <=> Holds(d)
  BY <1>1 DEF Holds
<1>3. \A d \in Calls : /\ pc[d] \in InProgress \ {"waiting"}
                            => pc'[d] \in InProgress \ {"waiting"}
                       /\ pc'[d] = "waiting" => pc[d] = "waiting"
  BY <1>1
<1>4. StagesHeld'
  <2>1. ~Active' => \A d \in Calls : pc'[d] \notin {"adding", "awaiting", "held"}
    BY <1>1 DEF RetryInv, StagesHeld, Active, InProgress
  <2>2. \A d \in Calls : pc'[d] = "awaiting" => stage'[d] \notin terminal'
    BY <1>1 DEF RetryInv, StagesHeld
  <2> QED
    BY <1>2, <2>1, <2>2 DEF RetryInv, StagesHeld, Holds
<1>5. OwnerAtWork'
  BY <1>3 DEF RetryInv, OwnerAtWork, Active
<1> QED
  BY <1>1, <1>2, <1>4, <1>5 DEF RetryInv, Active

\* A request that comes to an end takes its stage with it: nobody else holds it,
\* and if it was to start the session those who wait for that look again.
LEMMA ReturnKeeps ==
    ASSUME RetryInv,
           NEW c \in Calls, NEW p \in {"ok", "held", "refused", "failed"},
           Holds(c), pc[c] \notin {"held", "waiting"},
           p = "held" => Active,
           Return(c, p), UNCHANGED <<phase, roots, terminal>>
    PROVE  RetryInv'
<1>0. /\ stage' = stage /\ stage[c] \in Stages /\ stage[c] # NoStage
      /\ inFlight' = IF p = "held" THEN inFlight ELSE inFlight \ {stage[c]}
  BY RetryAssumption DEF Return, Forgotten, RetryInv
<1> DEFINE f == [pc EXCEPT ![c] = p]
<1>1. /\ owner = stage[c] => owner' = NoStage /\ pc' = Notified(f)
      /\ owner # stage[c] => owner' = owner /\ pc' = f
  BY DEF Return
<1>2. f[c] = p /\ DOMAIN f = Calls /\ \A d \in Calls : d # c => f[d] = pc[d]
  BY DEF RetryInv
<1> HIDE DEF f
<1>3. /\ pc'[c] = p /\ DOMAIN pc' = Calls
      /\ \A d \in Calls : d # c => \/ pc'[d] = pc[d] /\ (owner = stage[c] => pc[d] # "waiting")
                                   \/ owner = stage[c] /\ pc[d] = "waiting" /\ pc'[d] = "look"
  <2>1. CASE owner = stage[c]
    <3>1. pc' = [d \in Calls |-> IF f[d] = "waiting" THEN "look" ELSE f[d]]
      BY <1>1, <2>1 DEF Notified
    <3> QED
      BY <1>2, <2>1, <3>1
  <2>2. CASE owner # stage[c]
    BY <1>1, <1>2, <2>2
  <2> QED
    BY <2>1, <2>2
<1>4. \A d \in Calls : d # c =>
         (Holds(d)' <=> Holds(d)) /\ (Holds(d) => stage[d] # stage[c])
  BY <1>3 DEF Holds, InProgress, RetryInv, StagesHeld
<1>5. Holds(c)' <=> p = "held"
  BY <1>3 DEF Holds, InProgress
<1>6. ~Active' => \A d \in Calls : pc'[d] \notin {"adding", "awaiting", "held"}
  BY <1>3 DEF RetryInv, StagesHeld, Active
<1>7. \A d \in Calls : pc'[d] = "awaiting" => stage'[d] \notin terminal'
  BY <1>0, <1>3 DEF RetryInv, StagesHeld
<1>8. \A s \in Stages : s \in inFlight' <=> \E d \in Calls : stage'[d] = s /\ Holds(d)'
  <2>1. \A s \in Stages : s \in inFlight <=> \E d \in Calls : stage[d] = s /\ Holds(d)
    BY DEF RetryInv, StagesHeld, Holds
  <2> QED
    BY <1>0, <1>4, <1>5, <2>1
<1>9. \A d, e \in Calls : d # e /\ stage'[d] = stage'[e] /\ Holds(d)' => ~Holds(e)'
  BY <1>0, <1>4, <1>5 DEF RetryInv, StagesHeld, Holds
<1>10. StagesHeld'
  BY <1>6, <1>7, <1>8, <1>9 DEF StagesHeld, Holds
<1>11. OwnerAtWork'
  <2>1. \A d \in Calls : pc'[d] = "waiting" => pc[d] = "waiting" /\ owner # stage[c]
    BY <1>3
  <2>2. \A d \in Calls : pc'[d] = "waiting" => ~Active' /\ owner' # NoStage
    BY <1>1, <2>1 DEF RetryInv, OwnerAtWork, Active
  <2>3. ASSUME owner' # NoStage
        PROVE  \E d \in Calls : stage'[d] = owner' /\ pc'[d] \in InProgress \ {"waiting"}
    <3>1. owner # stage[c] /\ owner' = owner
      BY <1>1, <2>3
    <3>2. PICK d \in Calls : stage[d] = owner /\ pc[d] \in InProgress \ {"waiting"}
      BY <2>3, <3>1 DEF RetryInv, OwnerAtWork
    <3> QED
      BY <1>0, <1>3, <3>1, <3>2
  <2> QED
    BY <2>2, <2>3 DEF OwnerAtWork
<1>12. inFlight' \subseteq Stages /\ owner' \in Stages \cup {NoStage}
  BY <1>0, <1>1 DEF RetryInv
<1>13. \A d \in Calls : Holds(d)' => stage'[d] \in Stages
  BY <1>0, <1>4 DEF RetryInv
<1> QED
  BY <1>0, <1>3, <1>10, <1>11, <1>12, <1>13 DEF RetryInv, Active

\* The steps of a session tell requests of the end of their roots, or take over
\* what is pending; in each the requests stay in progress.
LEMMA ToldKeeps ==
    ASSUME RetryInv, Active' <=> Active,
           UNCHANGED <<stage, inFlight, owner, roots>>,
           DOMAIN pc' = Calls,
           \A c \in Calls : \/ pc'[c] = pc[c]
                            \/ pc[c] = "adding" /\ pc'[c] = "added"
                            \/ pc[c] = "awaiting" /\ pc'[c] = "answered",
           \A c \in Calls : pc'[c] = "awaiting" => stage[c] \notin terminal'
    PROVE  RetryInv'
<1>1. \A c \in Calls : /\ Holds(c)' <=> Holds(c)
                       /\ pc[c] \in InProgress \ {"waiting"}
                            => pc'[c] \in InProgress \ {"waiting"}
                       /\ pc'[c] = "waiting" => pc[c] = "waiting"
  BY DEF Holds, InProgress
<1>2. StagesHeld'
  BY <1>1 DEF RetryInv, StagesHeld, Holds
<1>3. OwnerAtWork'
  BY <1>1 DEF RetryInv, OwnerAtWork
<1> QED
  BY <1>1, <1>2, <1>3 DEF RetryInv

\* Every step keeps the invariant.
LEMMA RetryNext == RetryInv /\ [Next]_vars => RetryInv'
<1> SUFFICES ASSUME RetryInv, [Next]_vars PROVE RetryInv'
  OBVIOUS
<1> USE DEF request, manager, rows, session
<1>1. ASSUME NEW c \in Calls, Enter(c) PROVE RetryInv'
  <2>1. PICK s \in StagesOf[c] :
          /\ stage' = [stage EXCEPT ![c] = s]
          /\ IF s \in inFlight
             THEN /\ pc' = [pc EXCEPT ![c] = "refused"]
                  /\ UNCHANGED <<inFlight, owner, conflict>>
             ELSE /\ inFlight' = inFlight \cup {s}
                  /\ conflict' = [conflict EXCEPT ![c] = tracked]
                  /\ owner' = IF Active \/ owner # NoStage THEN owner ELSE s
                  /\ pc' = [pc EXCEPT ![c] = IF Active THEN "check"
                                             ELSE IF owner = NoStage THEN "look"
                                             ELSE "waiting"]
    BY <1>1, Zenon DEF Enter
  <2>2. s \in Stages /\ s # NoStage
    BY RetryAssumption
  <2>3. /\ pc[c] = "idle" /\ UNCHANGED <<phase, roots, terminal>>
        /\ stage'[c] = s /\ stage' \in [Calls -> Stages \cup {NoStage}]
        /\ \A d \in Calls : d # c => stage'[d] = stage[d]
    BY <1>1, <2>1, <2>2 DEF Enter, RetryInv
  <2>4. /\ DOMAIN pc' = Calls /\ \A d \in Calls : d # c => pc'[d] = pc[d]
        /\ s \in inFlight => pc'[c] = "refused"
        /\ s \notin inFlight => /\ Active => pc'[c] = "check"
                                /\ ~Active /\ owner = NoStage => pc'[c] = "look"
                                /\ ~Active /\ owner # NoStage => pc'[c] = "waiting"
    BY <2>1 DEF RetryInv
  <2>5. /\ ~Holds(c) /\ \A d \in Calls : d # c => (Holds(d)' <=> Holds(d))
        /\ Holds(c)' <=> s \notin inFlight
    BY <2>3, <2>4 DEF Holds, InProgress
  <2>6. \A t \in Stages : t \in inFlight <=> \E d \in Calls : stage[d] = t /\ Holds(d)
    BY DEF RetryInv, StagesHeld, Holds
  <2>7. \A t \in Stages : t \in inFlight' <=> \E d \in Calls : stage'[d] = t /\ Holds(d)'
    <3>1. \A t \in Stages : (\E d \in Calls : stage'[d] = t /\ Holds(d)')
                            <=> \/ t = s /\ s \notin inFlight
                                \/ \E d \in Calls : stage[d] = t /\ Holds(d)
      BY <2>3, <2>5
    <3>2. inFlight' = IF s \in inFlight THEN inFlight ELSE inFlight \cup {s}
      BY <2>1
    <3> QED
      BY <2>6, <3>1, <3>2
  <2>8. \A d, e \in Calls : d # e /\ stage'[d] = stage'[e] /\ Holds(d)' => ~Holds(e)'
    <3>1. \A d, e \in Calls : d # e /\ stage[d] = stage[e] /\ Holds(d) => ~Holds(e)
      BY DEF RetryInv, StagesHeld, Holds
    <3>2. s \notin inFlight => \A d \in Calls : Holds(d) => stage[d] # s
      BY <2>2, <2>6
    <3> QED
      BY <2>3, <2>5, <3>1, <3>2
  <2>9. StagesHeld'
    <3>1. ~Active' => \A d \in Calls : pc'[d] \notin {"adding", "awaiting", "held"}
      BY <2>3, <2>4 DEF RetryInv, StagesHeld, Active
    <3>2. \A d \in Calls : pc'[d] = "awaiting" => stage'[d] \notin terminal'
      BY <2>3, <2>4 DEF RetryInv, StagesHeld
    <3> QED
      BY <2>7, <2>8, <3>1, <3>2 DEF StagesHeld, Holds
  <2>10. OwnerAtWork'
    <3>1. \A d \in Calls : pc'[d] = "waiting" => ~Active' /\ owner' # NoStage
      <4>1. \A d \in Calls : pc[d] = "waiting" => ~Active /\ owner # NoStage
        BY DEF RetryInv, OwnerAtWork
      <4>2. owner # NoStage => owner' = owner
        BY <2>1
      <4> QED
        BY <2>3, <2>4, <4>1, <4>2 DEF Active
    <3>2. ASSUME owner' # NoStage
          PROVE  \E d \in Calls : stage'[d] = owner' /\ pc'[d] \in InProgress \ {"waiting"}
      <4>1. CASE owner # NoStage
        <5>1. PICK d \in Calls : stage[d] = owner /\ pc[d] \in InProgress \ {"waiting"}
          BY <4>1 DEF RetryInv, OwnerAtWork
        <5>2. d # c /\ owner' = owner
          BY <2>1, <2>3, <4>1, <5>1 DEF InProgress
        <5> QED
          BY <2>3, <2>4, <5>1, <5>2
      <4>2. CASE owner = NoStage
        <5>1. s \notin inFlight /\ ~Active /\ owner' = s
          BY <2>1, <3>2, <4>2
        <5> QED
          BY <2>3, <2>4, <4>2, <5>1 DEF InProgress
      <4> QED
        BY <4>1, <4>2
    <3> QED
      BY <3>1, <3>2 DEF OwnerAtWork
  <2>11. inFlight' \subseteq Stages /\ owner' \in Stages \cup {NoStage}
    BY <2>1, <2>2 DEF RetryInv
  <2>12. \A d \in Calls : Holds(d)' => stage'[d] \in Stages
    BY <2>2, <2>3, <2>5 DEF RetryInv
  <2> QED
    BY <2>3, <2>4, <2>9, <2>10, <2>11, <2>12 DEF RetryInv, Active
<1>2. ASSUME NEW c \in Calls,
             StopWaiting(c) \/ WaitTimesOut(c) \/ Look(c)
      PROVE  RetryInv'
  <2>1. /\ pc[c] \in {"waiting", "awaiting", "look"}
        /\ \E p \in {"look", "undo", "check"} : pc' = [pc EXCEPT ![c] = p]
        /\ UNCHANGED <<stage, inFlight, owner, phase, terminal, roots>>
    BY <1>2 DEF StopWaiting, WaitTimesOut, Look
  <2> QED
    BY <2>1, MoveKeeps DEF Holds, InProgress
<1>3. ASSUME NEW c \in Calls, Check(c) PROVE RetryInv'
  <2>1. /\ pc[c] = "check" /\ UNCHANGED <<phase, roots, terminal>>
        /\ \/ Return(c, "refused")
           \/ /\ \E p \in {"create", "track"} : pc' = [pc EXCEPT ![c] = p]
              /\ UNCHANGED <<stage, inFlight, owner>>
    BY <1>3 DEF Check
  <2>2. CASE Return(c, "refused")
    BY <2>1, <2>2, ReturnKeeps DEF Holds, InProgress
  <2>3. CASE ~Return(c, "refused")
    BY <2>1, <2>3, MoveKeeps DEF Holds, InProgress
  <2> QED
    BY <2>2, <2>3
<1>4. ASSUME NEW c \in Calls, Track(c) PROVE RetryInv'
  <2>1. /\ pc[c] = "track" /\ UNCHANGED <<phase, roots, terminal>>
        /\ \/ Return(c, "refused")
           \/ /\ pc' = [pc EXCEPT ![c] = "create"]
              /\ UNCHANGED <<stage, inFlight, owner>>
    BY <1>4 DEF Track
  <2>2. CASE Return(c, "refused")
    BY <2>1, <2>2, ReturnKeeps DEF Holds, InProgress
  <2>3. CASE ~Return(c, "refused")
    BY <2>1, <2>3, MoveKeeps DEF Holds, InProgress
  <2> QED
    BY <2>2, <2>3
<1>5. ASSUME NEW c \in Calls, Create(c) PROVE RetryInv'
  <2>1. /\ pc[c] = "create"
        /\ \E p \in {"join", "undo"} : pc' = [pc EXCEPT ![c] = p]
        /\ UNCHANGED <<stage, inFlight, owner, phase, terminal, roots>>
    BY <1>5 DEF Create
  <2> QED
    BY <2>1, MoveKeeps DEF Holds, InProgress
<1>6. ASSUME NEW c \in Calls, AddRoot(c) PROVE RetryInv'
  <2>1. /\ pc[c] = "join" /\ Active
        /\ \E p \in {"adding", "undo"} : pc' = [pc EXCEPT ![c] = p]
        /\ UNCHANGED <<stage, inFlight, owner, phase, terminal>>
    BY <1>6 DEF AddRoot
  <2> QED
    BY <2>1, MoveKeeps DEF Holds, InProgress
<1>7. ASSUME NEW c \in Calls, Start(c) PROVE RetryInv'
  <2> DEFINE f == [pc EXCEPT ![c] = "added"]
  <2>1. /\ pc[c] = "join" /\ ~Active /\ Active'
        /\ pc' = Notified(f) /\ UNCHANGED <<stage, inFlight, owner, terminal>>
    BY <1>7 DEF Start, Active
  <2>2. f[c] = "added" /\ \A d \in Calls : d # c => f[d] = pc[d]
    BY DEF RetryInv
  <2> HIDE DEF f
  <2>3. pc' = [d \in Calls |-> IF f[d] = "waiting" THEN "look" ELSE f[d]]
    BY <2>1 DEF Notified
  <2>4. /\ DOMAIN pc' = Calls /\ pc'[c] = "added"
        /\ \A d \in Calls : d # c => \/ pc'[d] = pc[d] /\ pc[d] # "waiting"
                                     \/ pc[d] = "waiting" /\ pc'[d] = "look"
    BY <2>2, <2>3
  <2>5. \A d \in Calls : /\ Holds(d)' <=> Holds(d)
                         /\ pc[d] \in InProgress \ {"waiting"}
                              => pc'[d] \in InProgress \ {"waiting"}
                         /\ pc'[d] # "waiting"
                         /\ pc'[d] = "awaiting" => pc[d] = "awaiting"
    BY <2>1, <2>4 DEF Holds, InProgress
  <2>6. StagesHeld'
    BY <2>1, <2>5 DEF RetryInv, StagesHeld, Holds
  <2>7. OwnerAtWork'
    BY <2>1, <2>5 DEF RetryInv, OwnerAtWork
  <2> QED
    BY <2>1, <2>4, <2>5, <2>6, <2>7 DEF RetryInv
<1>8. ASSUME NEW c \in Calls, WaitForRoot(c) PROVE RetryInv'
  <2>1. pc[c] = "added" /\ UNCHANGED <<phase, roots, terminal>>
    BY <1>8 DEF WaitForRoot
  <2>2. CASE c \notin Awaiting
    <3>1. \E p \in {"ok", "held"} : Return(c, p) /\ (p = "held" => Active)
      BY <1>8, <2>2 DEF WaitForRoot
    <3> QED
      BY <2>1, <3>1, ReturnKeeps DEF Holds, InProgress
  <2>3. CASE c \in Awaiting /\ stage[c] \in terminal
    <3>1. Return(c, "ok")
      BY <1>8, <2>3 DEF WaitForRoot
    <3> QED
      BY <2>1, <3>1, ReturnKeeps DEF Holds, InProgress
  <2>4. CASE c \in Awaiting /\ stage[c] \notin terminal
    <3>1. /\ pc' = [pc EXCEPT ![c] = IF roots[stage[c]] # 0 THEN "awaiting" ELSE "undo"]
          /\ UNCHANGED <<stage, inFlight, owner>>
      BY <1>8, <2>4 DEF WaitForRoot
    <3>2. stage[c] \in Stages
      BY <2>1 DEF RetryInv, Holds, InProgress
    <3>3. roots[stage[c]] # 0 => Active
      BY <3>2 DEF RetryInv
    <3> QED
      BY <2>1, <2>4, <3>1, <3>3, MoveKeeps DEF Holds, InProgress
  <2> QED
    BY <2>2, <2>3, <2>4
<1>9. ASSUME NEW c \in Calls, Answer(c) \/ Undo(c) PROVE RetryInv'
  <2>1. /\ pc[c] \in {"answered", "undo"} /\ UNCHANGED <<phase, roots, terminal>>
        /\ \E p \in {"ok", "failed"} : Return(c, p)
    BY <1>9 DEF Answer, Undo
  <2> QED
    BY <2>1, ReturnKeeps DEF Holds, InProgress
<1>10. ASSUME NEW s \in Stages, Open(s) PROVE RetryInv'
  <2>1. UNCHANGED <<pc, stage, inFlight, owner, phase, roots, terminal>>
    BY <1>10 DEF Open
  <2> QED
    BY <2>1 DEF RetryInv, StagesHeld, OwnerAtWork, Holds, Active
<1>11. ASSUME NEW s \in Stages, Ask(s) PROVE RetryInv'
  <2>1. UNCHANGED <<pc, stage, inFlight, owner, phase, roots, terminal>>
    BY <1>11 DEF Ask
  <2> QED
    BY <2>1 DEF RetryInv, StagesHeld, OwnerAtWork, Holds, Active
<1>12. ASSUME NEW s \in Stages, Succeed(s) PROVE RetryInv'
  <2> DEFINE S == Ended({s})
  <2>1. /\ UNCHANGED <<stage, inFlight, owner, phase, roots>>
        /\ terminal' = terminal \cup S /\ pc' = Told(S, pc)
    BY <1>12 DEF Succeed
  <2> HIDE DEF S
  <2>2. pc' = [c \in Calls |-> IF pc[c] = "awaiting" /\ stage[c] \in S
                               THEN "answered" ELSE pc[c]]
    BY <2>1 DEF Told
  <2>3. \A c \in Calls : pc'[c] = "awaiting" => stage[c] \notin terminal'
    BY <2>1, <2>2 DEF RetryInv, StagesHeld
  <2>4. \A c \in Calls : pc'[c] = pc[c] \/ (pc[c] = "awaiting" /\ pc'[c] = "answered")
    BY <2>2
  <2>5. (Active' <=> Active) /\ DOMAIN pc' = Calls
    BY <2>1, <2>2 DEF Active
  <2> QED
    BY <2>1, <2>3, <2>4, <2>5, ToldKeeps
<1>13. ASSUME NEW s \in Stages, Fail(s) PROVE RetryInv'
  <2> DEFINE S == Ended({s})
             f == Told(S, pc)
  <2>1. /\ UNCHANGED <<stage, inFlight, owner, phase, roots>>
        /\ terminal' = terminal \cup S /\ pc' = Taken(f)
    BY <1>13 DEF Fail
  <2>2. f = [c \in Calls |-> IF pc[c] = "awaiting" /\ stage[c] \in S
                             THEN "answered" ELSE pc[c]]
    BY DEF Told
  <2> HIDE DEF S, f
  <2>3. pc' = [c \in Calls |-> IF f[c] = "adding" /\ stage[c] \in pending
                               THEN "added" ELSE f[c]]
    BY <2>1 DEF Taken
  <2>4. \A c \in Calls : pc'[c] = "awaiting" => stage[c] \notin terminal'
    BY <2>1, <2>2, <2>3 DEF RetryInv, StagesHeld
  <2>5. \A c \in Calls : \/ pc'[c] = pc[c]
                         \/ pc[c] = "adding" /\ pc'[c] = "added"
                         \/ pc[c] = "awaiting" /\ pc'[c] = "answered"
    BY <2>2, <2>3
  <2>6. (Active' <=> Active) /\ DOMAIN pc' = Calls
    BY <2>1, <2>3 DEF Active
  <2> QED
    BY <2>1, <2>4, <2>5, <2>6, ToldKeeps
<1>14. CASE Hydrate \/ Settle
  <2>1. /\ Active /\ Active'
        /\ UNCHANGED <<pc, stage, inFlight, owner, roots, terminal>>
    BY <1>14 DEF Hydrate, Settle, Active
  <2> QED
    BY <2>1 DEF RetryInv, StagesHeld, OwnerAtWork, Holds
<1>15. CASE Drain
  <2>1. /\ Active /\ Active'
        /\ UNCHANGED <<stage, inFlight, owner, roots, terminal>>
        /\ pc' = pc \/ pc' = Taken(pc)
    BY <1>15 DEF Drain, Active
  <2>2. /\ DOMAIN pc' = Calls
        /\ \A c \in Calls : pc'[c] = pc[c] \/ (pc[c] = "adding" /\ pc'[c] = "added")
    <3>1. CASE pc' = pc
      BY <3>1 DEF RetryInv
    <3>2. CASE pc' = Taken(pc)
      BY <3>2 DEF Taken
    <3> QED
      BY <2>1, <3>1, <3>2
  <2>3. \A c \in Calls : pc'[c] = "awaiting" => stage[c] \notin terminal'
    BY <2>1, <2>2 DEF RetryInv, StagesHeld
  <2> QED
    BY <2>1, <2>2, <2>3, ToldKeeps
<1>16. CASE Launch
  <2>1. PICK S : /\ terminal' = terminal \cup S /\ pc' = Told(S, pc)
    BY <1>16, Zenon DEF Launch
  <2>2. Active /\ Active'
        /\ UNCHANGED <<stage, inFlight, owner, roots>>
    BY <1>16 DEF Launch, Active
  <2>3. pc' = [c \in Calls |-> IF pc[c] = "awaiting" /\ stage[c] \in S
                               THEN "answered" ELSE pc[c]]
    BY <2>1 DEF Told
  <2>4. \A c \in Calls : pc'[c] = "awaiting" => stage[c] \notin terminal'
    BY <2>1, <2>3 DEF RetryInv, StagesHeld
  <2>5. \A c \in Calls : pc'[c] = pc[c] \/ (pc[c] = "awaiting" /\ pc'[c] = "answered")
    BY <2>3
  <2>6. DOMAIN pc' = Calls
    BY <2>3
  <2> QED
    BY <2>2, <2>4, <2>5, <2>6, ToldKeeps
<1>17. CASE Close
  <2>1. /\ Active /\ ~Active'
        /\ roots' = Nothing /\ terminal' = {} /\ pc' = SentAway
        /\ UNCHANGED <<stage, owner>>
        /\ inFlight' = inFlight \ {stage[c] : c \in {d \in Calls : pc[d] = "held"}}
    BY <1>17 DEF Close, Active
  <2>2. /\ DOMAIN pc' = Calls
        /\ \A c \in Calls : /\ pc[c] \in {"awaiting", "adding"} => pc'[c] = "undo"
                            /\ pc[c] = "held" => pc'[c] = "ok"
                            /\ pc[c] \notin {"awaiting", "adding", "held"} => pc'[c] = pc[c]
    BY <2>1 DEF SentAway
  <2>3. \A c \in Calls : /\ Holds(c)' <=> Holds(c) /\ pc[c] # "held"
                         /\ pc[c] = "held" => Holds(c)
                         /\ pc[c] \in InProgress \ {"waiting"}
                              => pc'[c] \in InProgress \ {"waiting"}
                         /\ pc'[c] # "waiting"
    BY <2>1, <2>2 DEF Holds, InProgress, RetryInv, OwnerAtWork
  <2>4. /\ \A s \in Stages : s \in inFlight <=> \E c \in Calls : stage[c] = s /\ Holds(c)
        /\ \A c, d \in Calls : c # d /\ stage[c] = stage[d] /\ Holds(c) => ~Holds(d)
    BY DEF RetryInv, StagesHeld, Holds
  <2>5. \A s \in Stages : s \in inFlight' <=> \E c \in Calls : stage'[c] = s /\ Holds(c)'
    <3> SUFFICES ASSUME NEW s \in Stages
                 PROVE  s \in inFlight' <=> \E c \in Calls : stage[c] = s /\ Holds(c)'
      BY <2>1
    <3>1. ASSUME s \in inFlight' PROVE \E c \in Calls : stage[c] = s /\ Holds(c)'
      BY <2>1, <2>3, <2>4, <3>1
    <3>2. ASSUME NEW c \in Calls, stage[c] = s, Holds(c)' PROVE s \in inFlight'
      <4>1. Holds(c) /\ pc[c] # "held"
        BY <2>3, <3>2
      <4>2. \A d \in Calls : pc[d] = "held" => stage[d] # s
        BY <2>3, <2>4, <3>2, <4>1
      <4> QED
        BY <2>1, <2>4, <3>2, <4>1, <4>2
    <3> QED
      BY <3>1, <3>2
  <2>6. \A c, d \in Calls : c # d /\ stage'[c] = stage'[d] /\ Holds(c)' => ~Holds(d)'
    BY <2>1, <2>3, <2>4
  <2>7. StagesHeld'
    <3>1. \A c \in Calls : pc'[c] \notin {"adding", "awaiting", "held"}
      BY <2>2
    <3> QED
      BY <2>5, <2>6, <3>1 DEF StagesHeld, Holds
  <2>8. OwnerAtWork'
    BY <2>1, <2>3 DEF RetryInv, OwnerAtWork
  <2>9. \A s \in Stages : roots'[s] = 0
    BY <2>1 DEF Nothing
  <2> QED
    BY <2>1, <2>2, <2>3, <2>7, <2>8, <2>9 DEF RetryInv
<1>18. CASE UNCHANGED vars
  BY <1>18 DEF vars, RetryInv, StagesHeld,
                OwnerAtWork, Holds, Active
<1> QED
  BY <1>1, <1>2, <1>3, <1>4, <1>5, <1>6, <1>7, <1>8, <1>9, <1>10, <1>11, <1>12, <1>13,
     <1>14, <1>15, <1>16, <1>17, <1>18
  DEF Next, CallStep, Work, LoopStep

\* For any number of stages and requests, timeouts included: no request waits for
\* a session that is gone, for a root that has ended, or for a request that waits
\* itself, and a stage is in retryInFlight exactly while one request, and only
\* one, holds it.
THEOREM NobodyEverLeftBehind == Spec => []NobodyLeftBehind
<1>1. RetryInv => NobodyLeftBehind
  BY DEF RetryInv, NobodyLeftBehind
<1> QED
  BY <1>1, RetryInit, RetryNext, PTL DEF Spec
=============================================================================
