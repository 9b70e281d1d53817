---------------------------- MODULE BeaconProofs ----------------------------
(***************************************************************************)
(* What a reader gives up for, for every pair of timeouts, clock           *)
(* resolution, lateness and transfer time.                                 *)
(***************************************************************************)
EXTENDS Beacon, TLAPS

(* A client never promises itself more than two beacons per timeout: the   *)
(* rounding to seconds, the cap and the halving all round down.  So on the *)
(* data stream, where the reader's timeout is the client's own, what is    *)
(* left for delays is what rounding leaves, and nothing for whole seconds. *)
THEOREM TwoBeaconsPerTimeout ==
    ASSUME NEW t \in Nat
    PROVE  beacon_interval(t) \in Nat /\ 2 * beacon_interval(t) <= t
<1> DEFINE secs == t \div Second
           ms   == (IF secs > MaxSecs THEN MaxSecs ELSE secs) * Second
<1>1. Second \in Nat /\ Second > 0 /\ MaxSecs \in Nat BY ClockAssumption
<1>2. secs \in Nat /\ secs * Second <= t
  BY <1>1
<1>3. ms \in Nat /\ ms <= t
  <2>1. CASE secs > MaxSecs
    <3>1. MaxSecs * Second <= secs * Second BY <1>1, <1>2, <2>1
    <3> QED BY <1>1, <1>2, <2>1, <3>1
  <2>2. CASE ~(secs > MaxSecs) BY <1>1, <1>2, <2>2
  <2> QED BY <2>1, <2>2
<1>4. ms \div 2 \in Nat /\ 2 * (ms \div 2) <= ms
  <2> HIDE DEF ms
  <2> QED BY <1>3
<1> QED BY <1>3, <1>4 DEF beacon_interval

(* While the writer works and is not in the middle of a frame, the time    *)
(* since its last one is ahead of the pinger's sleep by less than one      *)
(* interval (by nothing if it is zero).                                    *)
Ahead ==
    up /\ phase # "frame" /\ ~Stalled =>
        quiet <= nap + B /\ (B > 0 => quiet < nap + B)

(* The reader has not waited longer than the writer was quiet; within a    *)
(* frame it had waited for less than two intervals, and what the pinger    *)
(* was late, when the frame began.                                         *)
InTime ==
    up => /\ phase = "wait" => idle <= quiet
          /\ phase = "frame" => /\ idle <= took + 2 * B + debt
                                /\ B > 0 => idle < took + 2 * B + debt
          /\ phase = "busy" => idle = 0

IInv == TypeOK /\ Ahead /\ InTime /\ GivenUpForDelay

(* The interval is a number of ticks, and the settings stay as they are.   *)
LEMMA IntervalType ==
    ASSUME TypeOK
    PROVE  /\ B \in Nat /\ Late \in Nat /\ cfg.read \in Nat /\ Transfer \in Nat
           /\ Room \in Nat /\ Room > 0
<1>1. cfg.client \in Nat /\ cfg.read \in Nat BY ClockAssumption DEF TypeOK
<1> QED BY <1>1, TwoBeaconsPerTimeout, ClockAssumption DEF B

(* Every action keeps the inductive invariant.                             *)
LEMMA Kept ==
    ASSUME IInv, [Next]_vars
    PROVE  IInv'
<1>1. /\ B \in Nat /\ Late \in Nat /\ cfg.read \in Nat /\ Transfer \in Nat
      /\ Room \in Nat /\ Room > 0
  BY IntervalType DEF IInv
<1>2. cfg' = cfg
  BY DEF Next, vars, FrameBegin, FrameEnd, WriteBehind, Resume, Beat, Fail,
         Tick, Expire
<1>3. B' = B BY <1>2 DEF B
<1> USE <1>1, <1>2, <1>3
    DEF IInv, TypeOK, Ahead, InTime, GivenUpForDelay, Delay, Overdue, Stalled, Open
<1>4. CASE FrameBegin BY <1>4 DEF FrameBegin
<1>5. CASE FrameEnd BY <1>5 DEF FrameEnd
<1>6. CASE WriteBehind BY <1>6 DEF WriteBehind
<1>7. CASE Resume BY <1>7 DEF Resume
<1>8. CASE Beat BY <1>8 DEF Beat
<1>9. CASE Fail BY <1>9 DEF Fail
<1>10. CASE Tick BY <1>10 DEF Tick, Ages
<1>11. CASE Expire
  <2>1. (TypeOK /\ Ahead /\ InTime)' BY <1>11 DEF Expire
  <2>2. up /\ phase = "wait" => /\ cfg.read <= nap + B
                                /\ B > 0 => cfg.read < nap + B
    BY <1>11 DEF Expire
  <2>3. up /\ phase = "frame" => /\ cfg.read <= took + 2 * B + debt
                                 /\ B > 0 => cfg.read < took + 2 * B + debt
    BY <1>11 DEF Expire
  <2>4. /\ Delay' = Delay /\ up' = up /\ phase \in {"wait", "frame"}
    BY <1>11 DEF Expire
  <2>5. up => /\ 2 * B + Delay >= cfg.read
              /\ B > 0 => 2 * B + Delay > cfg.read
    BY <2>2, <2>3, <2>4
  <2> QED BY <2>1, <2>4, <2>5
<1>12. CASE UNCHANGED vars BY <1>12 DEF vars
<1> QED BY <1>4, <1>5, <1>6, <1>7, <1>8, <1>9, <1>10, <1>11, <1>12 DEF Next

(* The inductive invariant holds throughout.                               *)
THEOREM Invariance == Spec => []IInv
<1>1. Init => IInv
  <2> SUFFICES ASSUME Init PROVE IInv OBVIOUS
  <2>1. cfg.client \in Nat /\ cfg.read \in Nat BY ClockAssumption DEF Init
  <2>2. B \in Nat BY <2>1, TwoBeaconsPerTimeout DEF B
  <2> QED BY <2>1, <2>2, ClockAssumption
          DEF Init, IInv, TypeOK, Ahead, InTime, GivenUpForDelay, Stalled
<1> QED BY <1>1, Kept, PTL DEF Spec

(* Clocks and counters stay within their bounds: the pinger is never later *)
(* than it may be, and no frame or backlog exceeds its limit.              *)
THEOREM TypeCorrectness == Spec => []TypeOK
<1>1. IInv => TypeOK BY DEF IInv
<1> QED BY <1>1, Invariance, PTL

(* A reader gives up on a working writer only for a delay that uses up     *)
(* what its timeout leaves beyond two beacon intervals (server.rs 648-686, *)
(* 717-761; client.rs 542-570, 686-690, 783-830).                          *)
THEOREM BeaconsInTime == Spec => []GivenUpForDelay
<1>1. IInv => GivenUpForDelay BY DEF IInv
<1> QED BY <1>1, Invariance, PTL

(* So where two intervals, the lateness and one transfer fit the timeout,  *)
(* a reader gives up only on a writer that is gone.                        *)
COROLLARY MarginSuffices ==
    Spec => [](/\ 2 * B + Late + Transfer <= cfg.read
               /\ B = 0 => Late + Transfer < cfg.read
               => OnlyDeadPeersExpire)
<1>1. IInv => (/\ 2 * B + Late + Transfer <= cfg.read
               /\ B = 0 => Late + Transfer < cfg.read
               => OnlyDeadPeersExpire)
  <2> SUFFICES ASSUME IInv, 2 * B + Late + Transfer <= cfg.read,
                      B = 0 => Late + Transfer < cfg.read
               PROVE  OnlyDeadPeersExpire
    OBVIOUS
  <2>1. /\ B \in Nat /\ Late \in Nat /\ cfg.read \in Nat /\ Transfer \in Nat
    BY IntervalType DEF IInv
  <2>2. Delay \in Nat /\ Delay <= Late + Transfer
    BY <2>1 DEF IInv, TypeOK, Delay, Overdue
  <2> HIDE DEF Delay
  <2> QED BY <2>1, <2>2 DEF IInv, TypeOK, GivenUpForDelay, OnlyDeadPeersExpire
<1> QED BY <1>1, Invariance, PTL
=============================================================================
