--------------------------- MODULE GameLoop_proofs ---------------------------
(***************************************************************************)
(* Proofs about GameLoop, for every step and every longest frame.  All but  *)
(* the type are about a loop whose tick rate is not changed while it runs:  *)
(* the server's, and the client's when the player leaves it alone.          *)
(***************************************************************************)
EXTENDS GameLoop, TLAPS

RateFixed == TickSteps = {TickStep}

\* A frame starts with less than a step left over, so tAccum and what its ticks were
\* given together never reach the longest frame and a step.
LoopInv ==
  /\ TypeOK
  /\ tAccum >= 0
  /\ pc \in {"frame", "draw"} => tAccum < TickStep
  /\ pc = "ticks" => tAccum + granted < longest + TickStep
  /\ TimeConserved
  /\ CatchUpBounded

-----------------------------------------------------------------------------
LEMMA ClippedBounds ==
  ASSUME TypeOK, NEW dt \in 0 .. MaxJump
  PROVE  Clipped(dt) \in Nat /\ Clipped(dt) <= maxFrameTime
BY LoopAssumption DEF Clipped, TypeOK

LEMMA QuitType ==
  ASSUME TypeOK, quit' \in {quit, TRUE}
  PROVE  quit' \in BOOLEAN
BY Zenon DEF TypeOK

\* The type holds whatever rates are set.
LEMMA NextType == TypeOK /\ [Next]_vars => TypeOK'
<1> SUFFICES ASSUME TypeOK, [Next]_vars PROVE TypeOK'
  OBVIOUS
<1>1. CASE \E dt \in 0 .. MaxJump : Frame(dt)
  <2>1. PICK dt \in 0 .. MaxJump : Frame(dt)
    BY <1>1
  <2>2. quit' \in BOOLEAN
    BY <2>1, QuitType DEF Frame
  <2> QED
    BY <2>1, <2>2, ClippedBounds DEF Frame, TypeOK
<1>2. CASE \E step \in TickSteps, frameTime \in MaxFrameTimes : Tick(step, frameTime)
  <2>1. PICK step \in TickSteps, frameTime \in MaxFrameTimes : Tick(step, frameTime)
    BY <1>2
  <2>2. quit' \in BOOLEAN
    BY <2>1, QuitType DEF Tick
  <2>3. tickStep \in Nat /\ tickStep' \in Nat /\ tickStep' \in TickSteps
    BY <2>1, LoopAssumption DEF Tick, StepOf, TypeOK
  <2>4. tAccum' \in Int /\ pc' \in {"ticks", "stopped"}
    <3>1. CASE QuitSeen
      BY <2>1, <3>1 DEF Tick, TypeOK
    <3>2. CASE ~QuitSeen
      BY <2>1, <2>3, <3>2 DEF Tick, TypeOK, Spent
    <3> QED
      BY <3>1, <3>2
  <2> QED
    BY <2>1, <2>2, <2>3, <2>4 DEF Tick, TypeOK
<1>3. CASE EndTicks
  BY <1>3 DEF EndTicks, TypeOK
<1>4. CASE Draw
  BY <1>4 DEF Draw, TypeOK
<1>5. CASE UNCHANGED vars
  BY <1>5 DEF vars, TypeOK
<1> QED
  BY <1>1, <1>2, <1>3, <1>4, <1>5 DEF Next

LEMMA InitType == Init => TypeOK
<1> SUFFICES ASSUME Init PROVE TypeOK
  OBVIOUS
<1>1. quit \in BOOLEAN
  BY Zenon DEF Init
<1> QED
  BY <1>1, LoopAssumption DEF Init, TypeOK

LEMMA InitLoop == RateFixed /\ Init => LoopInv
BY InitType, LoopAssumption DEF Init, LoopInv, TimeConserved, CatchUpBounded

LEMMA NextLoop == RateFixed /\ LoopInv /\ [Next]_vars => LoopInv'
<1> SUFFICES ASSUME RateFixed, LoopInv, [Next]_vars PROVE LoopInv'
  OBVIOUS
<1>1. TypeOK'
  BY NextType DEF LoopInv
<1>2. /\ tickStep = TickStep /\ tickStep' = TickStep
      /\ TickStep \in Nat \ {0} /\ maxFrameTime \in Nat \ {0} /\ longest \in Nat \ {0}
      /\ tAccum \in Int /\ owed \in Int /\ granted \in Nat
  BY <1>1, LoopAssumption DEF LoopInv, TypeOK, RateFixed
<1>3. CASE \E dt \in 0 .. MaxJump : Frame(dt)
  <2>1. PICK dt \in 0 .. MaxJump : Frame(dt)
    BY <1>3
  <2>2. Clipped(dt) \in Nat /\ Clipped(dt) <= maxFrameTime
    BY ClippedBounds DEF LoopInv
  <2> QED
    BY <1>1, <1>2, <2>1, <2>2 DEF Frame, LoopInv, TimeConserved, CatchUpBounded
<1>4. CASE \E step \in TickSteps, frameTime \in MaxFrameTimes : Tick(step, frameTime)
  <2>1. PICK step \in TickSteps, frameTime \in MaxFrameTimes : Tick(step, frameTime)
    BY <1>4
  <2>2. /\ tAccum >= TickStep /\ granted' = granted + TickStep /\ pc = "ticks"
        /\ longest' = longest
    BY <1>2, <2>1 DEF Tick, TickDue
  <2>3. CASE QuitSeen
    <3>1. pc' = "stopped" /\ tAccum' = tAccum
      BY <2>1, <2>3 DEF Tick
    <3> QED
      BY <1>1, <1>2, <2>2, <3>1 DEF LoopInv, TimeConserved, CatchUpBounded
  <2>4. CASE ~QuitSeen
    <3>1. pc' = "ticks" /\ tAccum' = tAccum - TickStep /\ owed' = owed - TickStep
      BY <1>2, <2>1, <2>2, <2>4 DEF Tick, Spent
    <3> QED
      BY <1>1, <1>2, <2>2, <3>1 DEF LoopInv, TimeConserved, CatchUpBounded
  <2> QED
    BY <2>3, <2>4
<1>5. CASE EndTicks
  BY <1>1, <1>2, <1>5 DEF EndTicks, TickDue, LoopInv, TimeConserved, CatchUpBounded
<1>6. CASE Draw
  BY <1>1, <1>2, <1>6 DEF Draw, LoopInv, TimeConserved, CatchUpBounded
<1>7. CASE UNCHANGED vars
  BY <1>1, <1>2, <1>7 DEF vars, LoopInv, TimeConserved, CatchUpBounded
<1> QED
  BY <1>3, <1>4, <1>5, <1>6, <1>7 DEF Next

-----------------------------------------------------------------------------
\* The loop is well typed whatever rates its ticks set; setTickRate never leaves a
\* step that is no rate's.
THEOREM TypeCorrect == Spec => []TypeOK
BY InitType, NextType, PTL DEF Spec

THEOREM Invariance == ASSUME RateFixed PROVE Spec => []LoopInv
<1>1. Init => LoopInv
  BY InitLoop
<1>2. LoopInv /\ [Next]_vars => LoopInv'
  BY NextLoop
<1> QED
  BY <1>1, <1>2, PTL DEF Spec

\* At a fixed rate, what is drawn is between the last two states.
THEOREM Interpolates == ASSUME RateFixed PROVE Spec => []BlendInterpolates
<1>1. LoopInv => BlendInterpolates
  BY LoopAssumption DEF LoopInv, BlendInterpolates, TypeOK, RateFixed
<1> QED
  BY Invariance, <1>1, PTL

\* At a fixed rate, no simulated time is gained or lost.
THEOREM Conserves == ASSUME RateFixed PROVE Spec => []TimeConserved
<1>1. LoopInv => TimeConserved
  BY DEF LoopInv
<1> QED
  BY Invariance, <1>1, PTL

\* At a fixed rate, the ticks of a frame are bounded by the longest frame.
THEOREM CatchesUp == ASSUME RateFixed PROVE Spec => []CatchUpBounded
<1>1. LoopInv => CatchUpBounded
  BY DEF LoopInv
<1> QED
  BY Invariance, <1>1, PTL
=============================================================================
