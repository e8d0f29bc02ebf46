------------------------- MODULE RobotClientsProofs -------------------------
(***************************************************************************)
(* TypeCorrect, OneBridgeAtATime, ChecksAreTrue, ProbeGoesHome and         *)
(* SmallSteps: for any number of bridges and requests, rounds, moves of a  *)
(* probe, restore steps, and any errors of inverse kinematics.  OneBridge  *)
(* is inductive given the types, the others are not.  Inv adds the types,  *)
(* what every observation says of the target, and that a program that is   *)
(* to send a command has one; Transcribed, that the exec loop has ended    *)
(* when its last record stops it; ProbeGoesBack, where the way back ends;  *)
(* Alone, that the plan of a client that moves alone goes on from where    *)
(* the robot is, and how far the probe can be from its base.               *)
(*                                                                         *)
(* First come the plans, then one lemma for each action that says what it  *)
(* does, then the invariants.                                              *)
(***************************************************************************)
EXTENDS RobotClients, SequenceTheorems, WellFoundedInduction, TLAPS

(* A set of naturals with an element has a least one.                      *)
LEMMA LeastElement ==
  ASSUME NEW T \in SUBSET Nat, T # {}
  PROVE  \E x \in T : \A y \in T : x <= y
<1> DEFINE R == OpToRel(<, Nat)
<1>1. IsWellFoundedOn(R, Nat)
  BY NatLessThanWellFounded
<1>2. \E x \in T : \A y \in T : ~(<<y, x>> \in R)
  <2> HIDE DEF R
  <2> QED BY <1>1, WFMin
<1>3. \A x, y \in Nat : y < x => <<y, x>> \in R
  BY DEF OpToRel
<1>4. \A x, y \in T : ~(<<y, x>> \in R) => x <= y
  <2> HIDE DEF R
  <2>1. \A x, y \in Nat : ~(y < x) => x <= y
    OBVIOUS
  <2> QED BY <1>3, <2>1
<1> HIDE DEF R
<1> QED BY <1>2, <1>4

(* Induction, for a set of naturals in place of a predicate.               *)
LEMMA InductionOverSet ==
  ASSUME NEW P \in SUBSET Nat, 0 \in P, \A i \in P : i + 1 \in P
  PROVE  Nat \subseteq P
<1> SUFFICES ASSUME Nat \ P # {} PROVE FALSE
  OBVIOUS
<1>1. PICK x \in Nat \ P : \A y \in Nat \ P : x <= y
  BY LeastElement
<1>2. x # 0 /\ x - 1 \in Nat /\ (x - 1) + 1 = x /\ ~(x <= x - 1)
  BY <1>1
<1>3. x - 1 \in P
  BY <1>1, <1>2
<1>4. (x - 1) + 1 \in P
  BY <1>3
<1> QED BY <1>4, <1>2, <1>1

Pose == [Parts -> Int]

(* The bounds of BoundedArmTarget.                                         *)
LEMMA SteppedFacts ==
  ASSUME NEW a \in Int, NEW b \in Int, NEW most \in Nat
  PROVE  /\ Stepped(a, b, most) \in Int
         /\ Distance(a, Stepped(a, b, most)) \in Nat
         /\ Distance(a, Stepped(a, b, most)) <= most
  BY DEF Stepped, Clip, Distance

(* A displacement has at least one segment.                                *)
LEMMA SegmentsType == \A d \in Int : Segments(d) \in Nat \ {0}
  BY DEF Segments, Distance

(* What a recursive step-by-step plan of the arm is: f starts at a and     *)
(* takes for segment i the bounded target of the point before.             *)
Walked(f, a, e, c, n) ==
  f = [i \in 0 .. n |-> IF i = 0 THEN a ELSE BoundedArmTarget(f[i - 1], f[i - 1] + e + c[i])]

IsWalk(f, a, e, c, n) ==
  /\ f \in [0 .. n -> Int]
  /\ f[0] = a
  /\ \A i \in 1 .. n : f[i] = BoundedArmTarget(f[i - 1], f[i - 1] + e + c[i])

(* Such a walk exists: by induction on its length, a walk of k segments    *)
(* can be continued by one.                                                *)
LEMMA WalkExists ==
  ASSUME NEW a \in Int, NEW n \in Nat, NEW e \in Int, NEW c \in [1 .. n -> Int]
  PROVE  \E f : IsWalk(f, a, e, c, n)
<1> DEFINE Good(k, f) == f[0] = a /\ \A i \in 1 .. k : f[i] = BoundedArmTarget(f[i - 1], f[i - 1] + e + c[i])
           P == {k \in Nat : k <= n => \E f \in [0 .. k -> Int] : Good(k, f)}
<1>1. 0 \in P
  <2>1. [i \in 0 .. 0 |-> a] \in [0 .. 0 -> Int] /\ Good(0, [i \in 0 .. 0 |-> a])
    OBVIOUS
  <2> QED BY <2>1
<1>2. \A k \in P : k + 1 \in P
  <2> SUFFICES ASSUME NEW k \in Nat, k + 1 <= n, NEW f \in [0 .. k -> Int], Good(k, f)
               PROVE  \E g \in [0 .. k + 1 -> Int] : Good(k + 1, g)
    <3>1. \A k \in P : k \in Nat /\ (k + 1 <= n => k <= n) /\ k + 1 \in Nat
      OBVIOUS
    <3> HIDE DEF Good
    <3> QED BY <3>1
  <2> DEFINE next == BoundedArmTarget(f[k], f[k] + e + c[k + 1])
             g == [i \in 0 .. k + 1 |-> IF i = k + 1 THEN next ELSE f[i]]
  <2>1. next \in Int
    <3> DEFINE x == f[k]
               y == f[k] + e + c[k + 1]
    <3>1. x \in Int /\ y \in Int /\ MaxJoint \in Nat
      BY MotionAssumption
    <3> HIDE DEF x, y
    <3>2. Stepped(x, y, MaxJoint) \in Int
      BY <3>1, SteppedFacts
    <3> QED BY <3>2 DEF BoundedArmTarget, x, y
  <2> HIDE DEF next
  <2>2. g \in [0 .. k + 1 -> Int]
    BY <2>1
  <2>3. g[0] = a
    OBVIOUS
  <2>4. \A i \in 1 .. k + 1 : g[i] = BoundedArmTarget(g[i - 1], g[i - 1] + e + c[i])
    <3> TAKE i \in 1 .. k + 1
    <3>1. CASE i = k + 1
      BY <3>1 DEF next
    <3>2. CASE i # k + 1
      <4>1. i \in 1 .. k /\ i - 1 \in 0 .. k /\ i - 1 # k + 1
        BY <3>2
      <4>2. i \in 0 .. k + 1 /\ i - 1 \in 0 .. k + 1
        BY <4>1
      <4>3. g[i] = f[i]
        BY <3>2, <4>2
      <4>4. g[i - 1] = f[i - 1]
        BY <4>1, <4>2
      <4>5. f[i] = BoundedArmTarget(f[i - 1], f[i - 1] + e + c[i])
        <5> HIDE DEF g
        <5> QED BY <4>1
      <4> HIDE DEF g
      <4> QED BY <4>3, <4>4, <4>5
    <3> QED BY <3>1, <3>2
  <2> QED BY <2>2, <2>3, <2>4
<1>3. Nat \subseteq P
  <2> HIDE DEF P
  <2> QED BY <1>1, <1>2, InductionOverSet, P \in SUBSET Nat DEF P
<1>4. n \in P
  <2> HIDE DEF P
  <2> QED BY <1>3
<1> QED BY <1>4 DEF IsWalk

(* What CHOOSE finds in CartesianPlan is such a walk.                      *)
LEMMA WalkIsWalked ==
  ASSUME NEW a \in Int, NEW n \in Nat, NEW e \in Int, NEW c \in [1 .. n -> Int],
         NEW arm, arm = CHOOSE f : Walked(f, a, e, c, n)
  PROVE  IsWalk(arm, a, e, c, n)
<1>0. PICK g : IsWalk(g, a, e, c, n)
  BY WalkExists
<1>1. /\ g \in [0 .. n -> Int] /\ g[0] = a
      /\ \A i \in 1 .. n : g[i] = BoundedArmTarget(g[i - 1], g[i - 1] + e + c[i])
  BY <1>0 DEF IsWalk
<1>2. Walked(g, a, e, c, n)
  <2> DEFINE h == [i \in 0 .. n |-> IF i = 0 THEN a ELSE BoundedArmTarget(g[i - 1], g[i - 1] + e + c[i])]
  <2>1. ASSUME NEW i \in 0 .. n PROVE g[i] = h[i]
    <3>1. CASE i = 0
      BY <1>1, <3>1
    <3>2. CASE i # 0
      <4>1. i \in 1 .. n
        BY <3>2
      <4> QED BY <4>1, <1>1, <3>2
    <3> QED BY <3>1, <3>2
  <2>2. g = [i \in 0 .. n |-> g[i]]
    BY <1>1
  <2>3. g = h
    BY <2>1, <2>2
  <2> QED BY <2>3 DEF Walked
<1>3. Walked(arm, a, e, c, n)
  BY Zenon, <1>2
<1>4. arm[0] = a
  BY <1>3, 0 \in 0 .. n DEF Walked
<1>5. ASSUME NEW i \in 1 .. n
      PROVE  arm[i] = BoundedArmTarget(arm[i - 1], arm[i - 1] + e + c[i])
  <2>1. i \in 0 .. n /\ i # 0
    OBVIOUS
  <2> QED BY <1>3, <2>1 DEF Walked
<1>6. \A i \in 0 .. n : arm[i] = g[i]
  <2> DEFINE Q == {k \in Nat : k <= n => arm[k] = g[k]}
  <2>1. 0 \in Q
    BY <1>1, <1>4
  <2>2. \A k \in Q : k + 1 \in Q
    <3>1. ASSUME NEW k \in Nat, k + 1 <= n, arm[k] = g[k] PROVE arm[k + 1] = g[k + 1]
      <4>1. k + 1 \in 1 .. n /\ (k + 1) - 1 = k
        BY <3>1
      <4>2. arm[k + 1] = BoundedArmTarget(arm[(k + 1) - 1], arm[(k + 1) - 1] + e + c[k + 1])
        BY <4>1, <1>5
      <4>3. g[k + 1] = BoundedArmTarget(g[(k + 1) - 1], g[(k + 1) - 1] + e + c[k + 1])
        BY <4>1, <1>1
      <4> QED BY <4>1, <4>2, <4>3, <3>1
    <3>2. \A k \in Q : k \in Nat /\ k + 1 \in Nat /\ (k + 1 <= n => k <= n /\ arm[k] = g[k])
      OBVIOUS
    <3> QED BY <3>1, <3>2
  <2>3. Nat \subseteq Q
    <3> HIDE DEF Q
    <3>1. Q \in SUBSET Nat
      BY DEF Q
    <3> QED BY <3>1, <2>1, <2>2, InductionOverSet
  <2> QED BY <2>3
<1>7. arm \in [0 .. n -> Int]
  <2>1. DOMAIN arm = 0 .. n /\ arm = [i \in 0 .. n |-> arm[i]]
    BY <1>3 DEF Walked
  <2> QED BY <2>1, <1>6, <1>1
<1> QED BY <1>4, <1>5, <1>7 DEF IsWalk

(* A Cartesian plan has a pose per segment; every pose is the one before   *)
(* it but for the right arm, which has moved by MaxJoint at most.          *)
From(q, plan, i) == IF i = 1 THEN q ELSE plan[i - 1]

Bounded(q, r) == r["left"] = q["left"] /\ Distance(q["right"], r["right"]) <= MaxJoint

Chain(q, plan) == \A i \in DOMAIN plan : Bounded(From(q, plan, i), plan[i])

Within(q, r, k) == r["left"] = q["left"] /\ Distance(q["right"], r["right"]) <= MaxJoint * k

(* plan_cartesian: the plan has a pose for every segment, and no command   *)
(* of it takes the arm further than MaxJoint from the one before.          *)
LEMMA CartesianPlanFacts ==
  ASSUME NEW q \in Pose, NEW d \in Int, NEW miss \in [1 .. Segments(d) -> Misses]
  PROVE  /\ CartesianPlan(q, d, miss) \in Seq(Pose)
         /\ Len(CartesianPlan(q, d, miss)) = Segments(d)
         /\ Chain(q, CartesianPlan(q, d, miss))
<1> DEFINE n == Segments(d)
           e == d \div n
           a == q["right"]
           arm == CHOOSE f : Walked(f, a, e, miss, n)
           plan == [i \in 1 .. n |-> [q EXCEPT !["right"] = arm[i]]]
<1>1. n \in Nat \ {0}
  BY SegmentsType
<1> HIDE DEF n
<1>2. a \in Int /\ e \in Int /\ miss \in [1 .. n -> Int]
  <2>1. d \div n \in Int
    BY <1>1
  <2>2. \A i \in 1 .. n : miss[i] \in Int
    BY MotionAssumption DEF n
  <2>3. miss = [i \in 1 .. n |-> miss[i]]
    BY DEF n
  <2>4. a \in Int
    BY DEF Pose, Parts, Arms
  <2> QED BY <2>1, <2>2, <2>3, <2>4
<1>3. CartesianPlan(q, d, miss) = plan
  BY Zenon DEF CartesianPlan, Walked, n, e
<1> HIDE DEF a, e
<1>8. arm = CHOOSE f : Walked(f, a, e, miss, n)
  OBVIOUS
<1> HIDE DEF arm
<1>7. IsWalk(arm, a, e, miss, n)
  <2>1. n \in Nat
    BY <1>1
  <2> QED BY Zenon, <2>1, <1>2, <1>8, WalkIsWalked
<1>4. /\ arm \in [0 .. n -> Int]
      /\ arm[0] = a
      /\ \A i \in 1 .. n : arm[i] = BoundedArmTarget(arm[i - 1], arm[i - 1] + e + miss[i])
  BY <1>7 DEF IsWalk
<1>9. \A i \in 0 .. n : arm[i] \in Int
  BY <1>4
<1>5. plan \in Seq(Pose) /\ Len(plan) = n
  <2>1. \A i \in 1 .. n : [q EXCEPT !["right"] = arm[i]] \in Pose
    <3>1. \A i \in 1 .. n : arm[i] \in Int
      BY <1>4, <1>1
    <3> QED BY <3>1 DEF Pose
  <2> QED BY <1>1, <2>1
<1>6. Chain(q, plan)
  <2> SUFFICES ASSUME NEW i \in 1 .. n PROVE Bounded(From(q, plan, i), plan[i])
    BY DEF Chain
  <2>1. Distance(arm[i - 1], arm[i]) <= MaxJoint
    <3> DEFINE x == arm[i - 1]
               y == arm[i - 1] + e + miss[i]
    <3>1. x \in Int /\ miss[i] \in Int
      BY <1>2, <1>9, <1>1, i - 1 \in 0 .. n
    <3>3. y \in Int /\ MaxJoint \in Nat
      BY <3>1, <1>2, MotionAssumption
    <3>4. arm[i] = BoundedArmTarget(x, y)
      BY <1>4
    <3> HIDE DEF x, y
    <3>2. Distance(x, Stepped(x, y, MaxJoint)) <= MaxJoint
      BY <3>1, <3>3, SteppedFacts
    <3> QED BY <3>4, <3>2 DEF BoundedArmTarget, x
  <2>2. plan[i]["right"] = arm[i] /\ plan[i]["left"] = q["left"]
    BY DEF Pose, Parts, Arms
  <2>3. From(q, plan, i)["right"] = arm[i - 1] /\ From(q, plan, i)["left"] = q["left"]
    <3>1. CASE i = 1
      BY <3>1, <1>4 DEF From, a
    <3>2. CASE i # 1
      <4>1. i - 1 \in 1 .. n
        BY <1>1, <3>2
      <4> QED BY <3>2, <4>1 DEF From, Pose, Parts, Arms
    <3> QED BY <3>1, <3>2
  <2> QED BY <2>1, <2>2, <2>3 DEF Bounded
<1> QED BY <1>3, <1>5, <1>6 DEF n

-----------------------------------------------------------------------------
(* The types.                                                              *)

Places ==
  {"none", "raised", "done", "plans", "aims", "moves", "looks", "restores", "restoring",
   "decides", "grips", "gripping", "checks", "records",
   "observes", "probes", "probed", "returns", "updates", "reads"}

TaskType == [at : Places, base : Pose, plan : Seq(Pose), goes : Int, todo : Seq(Int)]

RobotType == pose \in Pose /\ up \in BOOLEAN /\ faults \in Nat
TasksType == task \in [Movers -> TaskType]

(* The assumptions on the constants, in one place.                         *)
LEMMA AssumedTypes ==
  /\ MaxJoint \in Nat /\ MaxJoint >= 1 /\ Deltas \subseteq Int /\ Misses \subseteq Int
  /\ ProbeDelta \in Int /\ \A unit \in Units : Tolerance[unit] \in Nat
  /\ Probe \in Seq(Int) /\ RestoreSteps \in Nat \ {0} /\ Rounds \in Nat \ {0}
  /\ Target \in Int /\ MaxDelta \in Nat
  /\ LeaderAt \subseteq Int /\ NoBridge \notin Bridges /\ Reach \in Nat /\ MaxStep \in Nat
  BY MotionAssumption, ExecAssumption, TeleopAssumption

(* What a program does to its own record and to those of the others.       *)
LEMMA BecomesFacts ==
  ASSUME TasksType, NEW p \in Movers, NEW t \in TaskType, Becomes(p, t)
  PROVE  TasksType' /\ task'[p] = t /\ \A r \in Movers : r # p => task'[r] = task[r]
  BY DEF TasksType, Becomes

(* The record of a program that has not started is one.                    *)
LEMMA FreshType == Fresh \in TaskType
  BY DEF Fresh, TaskType, Places, Pose

(* A record with another place is one.                                     *)
LEMMA PlacedFacts ==
  ASSUME NEW t \in TaskType, NEW at \in Places
  PROVE  LET r == [t EXCEPT !.at = at]
         IN /\ r \in TaskType /\ r.at = at /\ r.base = t.base /\ r.plan = t.plan
            /\ r.goes = t.goes /\ r.todo = t.todo
<1>1. /\ t = [at |-> t.at, base |-> t.base, plan |-> t.plan, goes |-> t.goes, todo |-> t.todo]
      /\ t.at \in Places /\ t.base \in Pose /\ t.plan \in Seq(Pose)
      /\ t.goes \in Int /\ t.todo \in Seq(Int)
  BY DEF TaskType
<1>2. [t EXCEPT !.at = at] =
        [at |-> at, base |-> t.base, plan |-> t.plan, goes |-> t.goes, todo |-> t.todo]
  BY <1>1
<1> QED BY <1>1, <1>2 DEF TaskType

(* An exception ends the program that raised it and no other.              *)
LEMMA RaisesFacts ==
  ASSUME TasksType, NEW p \in Movers, Raises(p)
  PROVE  /\ TasksType' /\ task'[p].at = "raised"
         /\ \A r \in Movers : r # p => task'[r] = task[r]
<1> DEFINE t == [Fresh EXCEPT !.at = "raised"]
<1>1. t \in TaskType /\ t.at = "raised"
  <2>1. "raised" \in Places
    BY DEF Places
  <2> HIDE DEF Fresh
  <2> QED BY <2>1, FreshType, PlacedFacts
<1>2. Becomes(p, t)
  BY DEF Raises
<1> HIDE DEF t
<1> QED BY <1>1, <1>2, BecomesFacts

(* A program that ends keeps the pose it reports.                          *)
LEMMA DoneFacts ==
  ASSUME TasksType, NEW p \in Movers, NEW last \in Pose, Done(p, last)
  PROVE  /\ TasksType' /\ task'[p].at = "done" /\ task'[p].base = last
         /\ \A r \in Movers : r # p => task'[r] = task[r]
<1> DEFINE t == [Fresh EXCEPT !.at = "done", !.base = last]
<1>1. t \in TaskType /\ t.at = "done" /\ t.base = last
  <2>1. "done" \in Places
    BY DEF Places
  <2> QED BY FreshType, <2>1 DEF TaskType
<1>2. Becomes(p, t)
  BY DEF Done
<1> HIDE DEF t
<1> QED BY <1>1, <1>2, BecomesFacts

(* Going on to the next statement changes only where a program is.         *)
LEMMA GoesFacts ==
  ASSUME TasksType, NEW p \in Movers, NEW at \in Places, TaskGoes(p, at)
  PROVE  /\ TasksType' /\ task'[p].at = at
         /\ task'[p].base = task[p].base /\ task'[p].plan = task[p].plan
         /\ task'[p].goes = task[p].goes /\ task'[p].todo = task[p].todo
         /\ \A r \in Movers : r # p => task'[r] = task[r]
<1> DEFINE t == [task[p] EXCEPT !.at = at]
<1>1. task[p] \in TaskType
  BY DEF TasksType
<1>2. /\ t \in TaskType /\ t.at = at /\ t.base = task[p].base /\ t.plan = task[p].plan
      /\ t.goes = task[p].goes /\ t.todo = task[p].todo
  BY <1>1 DEF TaskType
<1>3. Becomes(p, t)
  BY DEF TaskGoes
<1> HIDE DEF t
<1> QED BY <1>2, <1>3, BecomesFacts

(* What a command does to the robot.                                       *)
LEMMA AcceptedFacts ==
  ASSUME RobotType, NEW q \in Pose, Accepted(q)
  PROVE  RobotType' /\ pose' = q
  BY DEF RobotType, Accepted

(* A command that fails has moved no arm, or the left one only, which is   *)
(* commanded first.                                                        *)
LEMMA RejectedFacts ==
  ASSUME RobotType, NEW q \in Pose, Rejected(q)
  PROVE  RobotType' /\ (pose' = pose \/ pose' = [pose EXCEPT !["left"] = q["left"]])
<1>1. up' \in BOOLEAN /\ faults' \in Nat
  <2>1. (up' = up /\ faults' = faults) \/ (up' = FALSE /\ faults' = faults + 1)
    BY DEF Rejected, robotVars
  <2>2. up' \in BOOLEAN
    BY Zenon, <2>1 DEF RobotType
  <2>3. faults' = faults \/ faults' = faults + 1
    BY Zenon, <2>1
  <2> QED BY <2>2, <2>3 DEF RobotType
<1>2. pose' = pose \/ pose' = [pose EXCEPT !["left"] = q["left"]]
  BY DEF Rejected, robotVars
<1>3. q["left"] \in Int
  BY DEF Pose, Parts, Arms
<1>4. pose' \in Pose
  BY <1>2, <1>3 DEF RobotType, Pose
<1> QED BY <1>1, <1>2, <1>4 DEF RobotType

(* Requests that only read leave the robot as it is.                       *)
LEMMA RobotStays ==
  ASSUME RobotType, UNCHANGED robotVars
  PROVE  RobotType' /\ pose' = pose
  BY DEF RobotType, robotVars

-----------------------------------------------------------------------------
(* What each step of a program does: Only(p) says that the types stay and  *)
(* that the records of the other programs do.                              *)

Only(p) == RobotType' /\ TasksType' /\ \A r \in Movers : r # p => task'[r] = task[r]
Fails(p) == task'[p].at = "raised"
KeepsBase(p) == task'[p].base = task[p].base /\ task'[p].todo = task[p].todo
PartOfIt(q) == pose' = pose \/ pose' = [pose EXCEPT !["left"] = q["left"]]

(* An exception, as an effect of one program.                              *)
LEMMA RaisesOnly ==
  ASSUME TasksType, RobotType', NEW p \in Movers, Raises(p)
  PROVE  Only(p) /\ Fails(p)
  BY RaisesFacts DEF Only, Fails

(* A Cartesian move is planned from where the robot is, or raises.         *)
LEMMA PlanCartesianFacts ==
  ASSUME RobotType, TasksType, NEW p \in Movers, PlanCartesian(p)
  PROVE  /\ TaskAt(p, "plans") /\ Only(p) /\ pose' = pose
         /\ \/ Fails(p)
            \/ /\ task'[p].at = "moves" /\ KeepsBase(p)
               /\ Chain(pose, task'[p].plan)
               /\ Len(task'[p].plan) \in 1 .. Segments(task[p].goes)
<1>1. TaskAt(p, "plans") /\ RobotType' /\ pose' = pose
  BY RobotStays DEF PlanCartesian
<1>2. CASE Raises(p)
  BY <1>1, <1>2, RaisesOnly
<1>3. CASE ~Raises(p)
  <2> DEFINE goes == task[p].goes
  <2>1. PICK miss \in [1 .. Segments(goes) -> Misses] :
          LET plan == CartesianPlan(pose, goes, miss)
          IN \E last \in DOMAIN plan :
               Becomes(p, [task[p] EXCEPT !.at = "moves", !.plan = SubSeq(plan, 1, last)])
    BY Zenon, <1>3 DEF PlanCartesian
  <2> DEFINE plan == CartesianPlan(pose, goes, miss)
  <2>2. PICK last \in DOMAIN plan :
          Becomes(p, [task[p] EXCEPT !.at = "moves", !.plan = SubSeq(plan, 1, last)])
    BY Zenon, <2>1
  <2>3. task[p] \in TaskType /\ goes \in Int /\ pose \in Pose
    BY DEF TasksType, TaskType, RobotType
  <2> HIDE DEF goes
  <2>4. plan \in Seq(Pose) /\ Len(plan) = Segments(goes) /\ Chain(pose, plan)
    BY <2>3, CartesianPlanFacts
  <2> HIDE DEF plan
  <2> DEFINE some == SubSeq(plan, 1, last)
  <2>5. last \in 1 .. Len(plan) /\ Len(plan) \in Nat /\ DOMAIN plan = 1 .. Len(plan)
    BY <2>4
  <2>6. some \in Seq(Pose) /\ Len(some) = last /\ \A i \in 1 .. last : some[i] = plan[i]
    BY <2>4, <2>5, SubSeqProperties
  <2> HIDE DEF some
  <2>7. Chain(pose, some)
    <3> SUFFICES ASSUME NEW i \in 1 .. last PROVE Bounded(From(pose, some, i), some[i])
      BY <2>6 DEF Chain
    <3>1. i \in 1 .. Len(plan) /\ some[i] = plan[i] /\ (i # 1 => i - 1 \in 1 .. last)
      BY <2>5, <2>6
    <3>2. From(pose, some, i) = From(pose, plan, i)
      BY <3>1, <2>6 DEF From
    <3> QED BY <3>1, <3>2, <2>4, <2>5 DEF Chain
  <2> DEFINE t == [task[p] EXCEPT !.at = "moves", !.plan = some]
  <2>8. /\ t \in TaskType /\ t.at = "moves" /\ t.plan = some
        /\ t.base = task[p].base /\ t.todo = task[p].todo
    BY <2>3, <2>6 DEF TaskType, Places
  <2>9. Becomes(p, t)
    BY <2>2 DEF some
  <2> HIDE DEF t
  <2>10. Only(p) /\ task'[p] = t
    BY <1>1, <2>8, <2>9, BecomesFacts DEF Only
  <2> QED BY <1>1, <2>4, <2>5, <2>6, <2>7, <2>8, <2>10 DEF KeepsBase, goes
<1> QED BY <1>2, <1>3

(* A plan of one bounded command.                                          *)
LEMMA ChainOfOne ==
  ASSUME NEW q \in Pose, NEW r \in Pose, Bounded(q, r)
  PROVE  Chain(q, <<r>>) /\ <<r>> \in Seq(Pose)
  BY DEF Chain, From

(* So is a turn of the wrist, which is one command.                        *)
LEMMA PlanWristFacts ==
  ASSUME RobotType, TasksType, NEW p \in Movers, PlanWrist(p)
  PROVE  /\ TaskAt(p, "aims") /\ Only(p) /\ pose' = pose
         /\ \/ Fails(p)
            \/ task'[p].at = "moves" /\ Chain(pose, task'[p].plan)
<1>1. TaskAt(p, "aims") /\ RobotType' /\ pose' = pose
  BY RobotStays DEF PlanWrist
<1>2. CASE Raises(p)
  BY <1>1, <1>2, RaisesOnly
<1>3. CASE ~Raises(p)
  <2> DEFINE t == [task[p] EXCEPT !.at = "moves", !.plan = <<pose>>]
  <2>1. Becomes(p, t)
    BY Zenon, <1>3 DEF PlanWrist
  <2>2. task[p] \in TaskType /\ pose \in Pose /\ Bounded(pose, pose)
    BY AssumedTypes DEF TasksType, RobotType, Bounded, Pose, Parts, Arms, Distance
  <2>3. <<pose>> \in Seq(Pose) /\ Chain(pose, <<pose>>)
    BY <2>2, ChainOfOne
  <2>4. t \in TaskType /\ t.at = "moves" /\ t.plan = <<pose>>
    BY <2>2, <2>3 DEF TaskType, Places
  <2> HIDE DEF t
  <2> QED BY <1>1, <2>1, <2>3, <2>4, BecomesFacts DEF Only
<1> QED BY <1>2, <1>3

(* A move sends the next pose of its plan, or fails with it.               *)
LEMMA SendPlannedFacts ==
  ASSUME RobotType, TasksType, NEW p \in Movers, SendPlanned(p)
  PROVE  /\ TaskAt(p, "moves") /\ task[p].plan # <<>> /\ Only(p)
         /\ \/ /\ pose' = Head(task[p].plan) /\ task'[p].plan = Tail(task[p].plan)
               /\ task'[p].at = "moves" /\ KeepsBase(p)
            \/ Fails(p) /\ PartOfIt(Head(task[p].plan))
<1> DEFINE q == Head(task[p].plan)
           t == [task[p] EXCEPT !.plan = Tail(@)]
<1>1. task[p] \in TaskType /\ task[p].plan \in Seq(Pose)
  BY DEF TasksType, TaskType
<1>2. TaskAt(p, "moves") /\ task[p].plan # <<>>
  BY DEF SendPlanned
<1>3. q \in Pose /\ Tail(task[p].plan) \in Seq(Pose)
  BY <1>1, <1>2, HeadTailProperties
<1>4. /\ t \in TaskType /\ t.at = "moves" /\ t.plan = Tail(task[p].plan)
      /\ t.base = task[p].base /\ t.todo = task[p].todo
  BY <1>1, <1>2, <1>3 DEF TaskType, TaskAt
<1>5. \/ Accepted(q) /\ Becomes(p, t)
      \/ Rejected(q) /\ Raises(p)
      \/ UNCHANGED robotVars /\ Raises(p)
  BY Zenon DEF SendPlanned
<1> HIDE DEF q, t
<1>6. CASE Accepted(q) /\ Becomes(p, t)
  <2>1. RobotType' /\ pose' = q
    BY <1>3, <1>6, AcceptedFacts
  <2>2. TasksType' /\ task'[p] = t /\ \A r \in Movers : r # p => task'[r] = task[r]
    BY <1>4, <1>6, BecomesFacts
  <2> QED BY <1>2, <1>4, <2>1, <2>2 DEF Only, KeepsBase, q
<1>7. CASE Rejected(q) /\ Raises(p)
  BY <1>2, <1>3, <1>7, RejectedFacts, RaisesOnly DEF PartOfIt, q
<1>8. CASE UNCHANGED robotVars /\ Raises(p)
  BY <1>2, <1>8, RobotStays, RaisesOnly DEF PartOfIt
<1> QED BY <1>5, <1>6, <1>7, <1>8

-----------------------------------------------------------------------------
(* The way back: it ends where it is to, and if that is not further than   *)
(* MaxJoint for each of its steps no step is longer than MaxJoint.         *)

(* What a quotient rounded down is.                                        *)
LEMMA Quotient ==
  ASSUME NEW x \in Int, NEW n \in Nat \ {0}
  PROVE  x \div n \in Int /\ n * (x \div n) <= x /\ x < n * (x \div n) + n
  OBVIOUS

(* Multiplication by a natural keeps the order.                            *)
LEMMA TimesIsMonotonic ==
  ASSUME NEW n \in Nat, NEW a \in Int, NEW b \in Int, a <= b
  PROVE  n * a <= n * b
  OBVIOUS

(* The quotients of the first and the last restore step.                   *)
LEMMA QuotientOfMultiple ==
  ASSUME NEW x \in Int, NEW n \in Nat \ {0}
  PROVE  (x * n) \div n = x /\ 0 \div n = 0
  OBVIOUS

(* Quotients are no further apart than their dividends allow.              *)
LEMMA QuotientsNear ==
  ASSUME NEW x \in Int, NEW y \in Int, NEW n \in Nat \ {0}, NEW most \in Nat,
         Distance(x, y) <= most * n
  PROVE  Distance(x \div n, y \div n) <= most
<1> DEFINE u == x \div n
           v == y \div n
<1>1. /\ u \in Int /\ n * u <= x /\ x < n * u + n
      /\ v \in Int /\ n * v <= y /\ y < n * v + n
  BY Quotient
<1> HIDE DEF u, v
<1>2. x - y <= n * most /\ y - x <= n * most
  <2>1. most * n = n * most /\ n * most \in Int
    OBVIOUS
  <2> QED BY <2>1 DEF Distance
<1>3. u <= v + most
  <2> SUFFICES ASSUME v + most + 1 <= u PROVE FALSE
    BY <1>1
  <2>1. n * (v + most + 1) <= n * u
    BY <1>1, TimesIsMonotonic
  <2>2. n * (v + most + 1) = n * v + n * most + n
    BY <1>1
  <2>3. n * v \in Int /\ n * u \in Int /\ n * most \in Int
    BY <1>1
  <2> QED BY <1>1, <1>2, <2>1, <2>2, <2>3
<1>4. v <= u + most
  <2> SUFFICES ASSUME u + most + 1 <= v PROVE FALSE
    BY <1>1
  <2>1. n * (u + most + 1) <= n * v
    BY <1>1, TimesIsMonotonic
  <2>2. n * (u + most + 1) = n * u + n * most + n
    BY <1>1
  <2>3. n * v \in Int /\ n * u \in Int /\ n * most \in Int
    BY <1>1
  <2> QED BY <1>1, <1>2, <2>1, <2>2, <2>3
<1>5. Distance(u, v) <= most
  BY <1>1, <1>3, <1>4 DEF Distance
<1> QED BY <1>5 DEF u, v

(* restore_joint_pos: its last pose is the base; and when the probe is at  *)
(* most MaxJoint * RestoreSteps away from the base, no step of the way     *)
(* back is longer than MaxJoint.                                           *)
LEMMA RestorePlanFacts ==
  ASSUME NEW now \in Pose, NEW base \in Pose
  PROVE  LET plan == RestorePlan(now, base)
         IN /\ plan \in Seq(Pose) /\ plan # <<>>
            /\ plan[Len(plan)] = base
            /\ Within(base, now, RestoreSteps) => Chain(now, plan)
<1> DEFINE n == RestoreSteps
           At(part, i) == now[part] + ((base[part] - now[part]) * i) \div n
           r(i) == [part \in Parts |-> At(part, i)]
           plan == [i \in 1 .. n |-> r(i)]
<1>1. n \in Nat \ {0} /\ MaxJoint \in Nat
  BY AssumedTypes
<1>2. RestorePlan(now, base) = plan
  BY DEF RestorePlan
<1>3. \A part \in Parts : now[part] \in Int /\ base[part] \in Int
  BY DEF Pose
<1>4. ASSUME NEW part \in Parts, NEW i \in Int PROVE At(part, i) \in Int
  <2>1. (base[part] - now[part]) * i \in Int
    BY <1>3
  <2> QED BY <2>1, <1>1, <1>3, Quotient
<1>5. ASSUME NEW part \in Parts PROVE At(part, 0) = now[part] /\ At(part, n) = base[part]
  <2> DEFINE x == base[part] - now[part]
  <2>1. x \in Int /\ x * 0 = 0
    BY <1>3
  <2>2. (x * n) \div n = x /\ 0 \div n = 0
    BY <1>1, <2>1, QuotientOfMultiple
  <2>3. At(part, 0) = now[part] + 0 /\ At(part, n) = now[part] + x
    BY <2>1, <2>2, Zenon
  <2> QED BY <2>3, <1>3
<1>6. r(0) = now /\ r(n) = base
  BY <1>5 DEF Pose
<1>7. \A i \in 0 .. n : r(i) \in Pose
  <2>1. ASSUME NEW i \in 0 .. n PROVE r(i) \in Pose
    <3>1. i \in Int
      BY <1>1
    <3> QED BY <3>1, <1>4 DEF Pose
  <2> QED BY <2>1
<1>8. plan \in Seq(Pose) /\ Len(plan) = n /\ plan # <<>>
  <2>1. plan \in [1 .. n -> Pose]
    BY <1>7, <1>1
  <2> HIDE DEF plan
  <2> QED BY <2>1, <1>1
<1>9. ASSUME Within(base, now, n), NEW i \in 1 .. n
      PROVE  Bounded(From(now, plan, i), plan[i])
  <2>1. From(now, plan, i) = r(i - 1) /\ plan[i] = r(i)
    <3>1. CASE i = 1
      BY <3>1, <1>6, <1>1 DEF From
    <3>2. CASE i # 1
      <4>1. i - 1 \in 1 .. n
        BY <1>1, <3>2
      <4> QED BY <4>1, <3>2 DEF From
    <3> QED BY <3>1, <3>2
  <2>2. "left" \in Parts /\ "right" \in Parts
    BY DEF Parts, Arms
  <2>3. At("left", i - 1) = now["left"] /\ At("left", i) = now["left"]
    <3>1. base["left"] - now["left"] = 0
      BY <1>9, <1>3, <2>2 DEF Within
    <3>2. 0 * i = 0 /\ 0 * (i - 1) = 0
      BY <1>1
    <3>3. 0 \div n = 0
      BY <1>1, QuotientOfMultiple
    <3>4. At("left", i - 1) = now["left"] + 0 /\ At("left", i) = now["left"] + 0
      BY <3>1, <3>2, <3>3, Zenon
    <3> QED BY <3>4, <1>3, <2>2
  <2>4. Distance(At("right", i - 1), At("right", i)) <= MaxJoint
    <3> DEFINE x == base["right"] - now["right"]
               u == (x * (i - 1)) \div n
               v == (x * i) \div n
    <3>1. x \in Int /\ i \in Int /\ x * i \in Int /\ x * (i - 1) \in Int /\ x * i = x * (i - 1) + x
      BY <1>1, <1>3, <2>2
    <3>2. x <= MaxJoint * n /\ -x <= MaxJoint * n
      BY <1>9, <1>1, <1>3, <2>2 DEF Within, Distance
    <3> HIDE DEF x
    <3>3. Distance(x * (i - 1), x * i) <= MaxJoint * n
      BY <3>1, <3>2, <1>1 DEF Distance
    <3>4. Distance(u, v) <= MaxJoint
      BY <3>1, <3>3, <1>1, QuotientsNear
    <3>5. u \in Int /\ v \in Int
      BY <3>1, <1>1, Quotient
    <3>6. At("right", i - 1) = now["right"] + u /\ At("right", i) = now["right"] + v
      BY DEF x
    <3> HIDE DEF u, v, At
    <3> QED BY <3>4, <3>5, <3>6, <1>3, <2>2, <1>1 DEF Distance
  <2>5. r(i - 1)["left"] = r(i)["left"]
    BY <2>2, <2>3
  <2>6. r(i - 1)["right"] = At("right", i - 1) /\ r(i)["right"] = At("right", i)
    BY <2>2
  <2> HIDE DEF plan, r, At
  <2> QED BY <2>1, <2>4, <2>5, <2>6 DEF Bounded
<1>10. plan[Len(plan)] = base
  BY <1>8, <1>6, <1>1
<1>11. Within(base, now, n) => Chain(now, plan)
  <2>1. DOMAIN plan = 1 .. n
    OBVIOUS
  <2> HIDE DEF plan
  <2> QED BY <1>9, <2>1 DEF Chain
<1> HIDE DEF plan, n
<1> QED BY <1>2, <1>8, <1>10, <1>11 DEF n

-----------------------------------------------------------------------------
(* The steps of the probe.                                                 *)

(* The probe starts with all of its moves to do.                           *)
LEMMA ProbeBeginsFacts ==
  ASSUME RobotType, TasksType, ProbeBegins
  PROVE  /\ Only("probe") /\ pose' = pose
         /\ task'["probe"].at = "looks" /\ task'["probe"].todo = Probe
<1> DEFINE t == [Fresh EXCEPT !.at = "looks", !.todo = Probe]
<1>1. t \in TaskType /\ t.at = "looks" /\ t.todo = Probe
  <2>1. "looks" \in Places
    BY DEF Places
  <2> QED BY <2>1, FreshType, AssumedTypes DEF TaskType
<1>2. Becomes("probe", t)
  BY DEF ProbeBegins
<1> HIDE DEF t
<1>3. "probe" \in Movers
  BY DEF Movers
<1>4. RobotType' /\ pose' = pose
  BY RobotStays DEF ProbeBegins
<1> QED BY <1>1, <1>2, <1>3, <1>4, BecomesFacts DEF Only

(* What the probe sees before a move: the base is the pose it first sees,  *)
(* and no later one.                                                       *)
LEMMA ProbeLooksFacts ==
  ASSUME RobotType, TasksType, ProbeLooks
  PROVE  LET t == task["probe"]
             u == task'["probe"]
             first == t.todo = Probe
         IN /\ t.at = "looks" /\ Only("probe") /\ pose' = pose
            /\ \/ Fails("probe")
               \/ /\ u.base = IF first THEN pose ELSE t.base
                  /\ \/ t.todo = <<>> /\ u.at = "restores" /\ u.todo = t.todo
                     \/ /\ t.todo # <<>> /\ u.at = "plans"
                        /\ u.goes = Head(t.todo) /\ u.todo = Tail(t.todo)
<1> DEFINE t == task["probe"]
           b == IF t.todo = Probe THEN pose ELSE t.base
           s == [t EXCEPT !.base = b]
           r == [s EXCEPT !.at = "restores"]
           p == [s EXCEPT !.at = "plans", !.goes = Head(s.todo), !.todo = Tail(@)]
<1>1. "probe" \in Movers /\ t \in TaskType
  BY DEF Movers, TasksType
<1>2. TaskAt("probe", "looks") /\ RobotType' /\ pose' = pose
  BY RobotStays DEF ProbeLooks
<1>3. \/ Raises("probe")
      \/ s.todo = <<>> /\ Becomes("probe", r)
      \/ s.todo # <<>> /\ Becomes("probe", p)
  BY Zenon DEF ProbeLooks
<1>4. b \in Pose
  BY <1>1 DEF TaskType, RobotType
<1> HIDE DEF b
<1>5. s \in TaskType /\ s.todo = t.todo /\ s.base = b /\ s.todo \in Seq(Int)
  <2> HIDE DEF t
  <2> QED BY <1>1, <1>4 DEF TaskType
<1> HIDE DEF s
<1>6. r \in TaskType /\ r.at = "restores" /\ r.todo = s.todo /\ r.base = s.base
  BY <1>5 DEF TaskType, Places
<1>7. s.todo # <<>> =>
        p \in TaskType /\ p.at = "plans" /\ p.goes = Head(s.todo) /\ p.todo = Tail(s.todo) /\ p.base = s.base
  <2> SUFFICES ASSUME s.todo # <<>>
               PROVE  /\ p \in TaskType /\ p.at = "plans" /\ p.goes = Head(s.todo)
                      /\ p.todo = Tail(s.todo) /\ p.base = s.base
    OBVIOUS
  <2>1. Head(s.todo) \in Int /\ Tail(s.todo) \in Seq(Int)
    BY <1>5, HeadTailProperties
  <2> QED BY <2>1, <1>5 DEF TaskType, Places
<1> HIDE DEF r, p
<1>8. CASE Raises("probe")
  BY <1>1, <1>2, <1>8, RaisesOnly DEF TaskAt
<1>9. CASE s.todo = <<>> /\ Becomes("probe", r)
  <2>1. TasksType' /\ task'["probe"] = r /\ \A x \in Movers : x # "probe" => task'[x] = task[x]
    BY <1>1, <1>6, <1>9, BecomesFacts
  <2> QED BY <2>1, <1>2, <1>5, <1>6, <1>9 DEF Only, TaskAt, b
<1>10. CASE s.todo # <<>> /\ Becomes("probe", p)
  <2>1. TasksType' /\ task'["probe"] = p /\ \A x \in Movers : x # "probe" => task'[x] = task[x]
    BY <1>1, <1>7, <1>10, BecomesFacts
  <2> QED BY <2>1, <1>2, <1>5, <1>7, <1>10 DEF Only, TaskAt, b
<1> QED BY <1>3, <1>8, <1>9, <1>10

(* After a move the probe looks again.                                     *)
LEMMA ProbeMovedFacts ==
  ASSUME RobotType, TasksType, ProbeMoved
  PROVE  /\ TaskAt("probe", "moves") /\ task["probe"].plan = <<>>
         /\ Only("probe") /\ pose' = pose
         /\ task'["probe"].at = "looks" /\ KeepsBase("probe")
<1>1. "probe" \in Movers /\ "looks" \in Places
  BY DEF Movers, Places
<1>2. RobotType' /\ pose' = pose
  BY RobotStays DEF ProbeMoved
<1>3. TaskAt("probe", "moves") /\ task["probe"].plan = <<>> /\ TaskGoes("probe", "looks")
  BY DEF ProbeMoved, Sent
<1> QED BY <1>1, <1>2, <1>3, GoesFacts DEF Only, KeepsBase

(* The way back is planned from where the robot is to the base.            *)
LEMMA RestoreJointPosFacts ==
  ASSUME RobotType, TasksType, RestoreJointPos
  PROVE  /\ TaskAt("probe", "restores") /\ Only("probe") /\ pose' = pose
         /\ \/ Fails("probe")
            \/ /\ task'["probe"].at = "restoring" /\ KeepsBase("probe")
               /\ task'["probe"].plan = RestorePlan(pose, task["probe"].base)
<1> DEFINE t == task["probe"]
           plan == RestorePlan(pose, t.base)
           r == [t EXCEPT !.at = "restoring", !.plan = plan]
<1>1. "probe" \in Movers /\ t \in TaskType /\ pose \in Pose /\ t.base \in Pose
  BY DEF Movers, TasksType, RobotType, TaskType
<1>2. TaskAt("probe", "restores") /\ RobotType' /\ pose' = pose
  BY RobotStays DEF RestoreJointPos
<1>3. plan \in Seq(Pose)
  BY <1>1, RestorePlanFacts
<1>4. Raises("probe") \/ Becomes("probe", r)
  BY Zenon DEF RestoreJointPos
<1> HIDE DEF plan
<1>5. /\ r \in TaskType /\ r.at = "restoring" /\ r.plan = plan
      /\ r.base = t.base /\ r.todo = t.todo
  BY <1>1, <1>3 DEF TaskType, Places
<1> HIDE DEF r
<1>6. CASE Raises("probe")
  BY <1>1, <1>2, <1>6, RaisesOnly
<1>7. CASE Becomes("probe", r)
  <2>1. TasksType' /\ task'["probe"] = r /\ \A x \in Movers : x # "probe" => task'[x] = task[x]
    BY <1>1, <1>5, <1>7, BecomesFacts
  <2> QED BY <2>1, <1>2, <1>5 DEF Only, KeepsBase, plan
<1> QED BY <1>4, <1>6, <1>7

(* The steps of the way back, and its end.                                 *)
LEMMA RestoreStepFacts ==
  ASSUME RobotType, TasksType, RestoreStep
  PROVE  LET t == task["probe"]
             u == task'["probe"]
         IN /\ t.at = "restoring" /\ Only("probe")
            /\ \/ t.plan = <<>> /\ pose' = pose /\ Fails("probe")
               \/ t.plan = <<>> /\ pose' = pose /\ u.at = "done" /\ u.base = t.base
               \/ /\ t.plan # <<>> /\ pose' = Head(t.plan)
                  /\ u.at = "restoring" /\ u.plan = Tail(t.plan) /\ KeepsBase("probe")
               \/ t.plan # <<>> /\ Fails("probe") /\ PartOfIt(Head(t.plan))
<1> DEFINE t == task["probe"]
           q == Head(t.plan)
           r == [t EXCEPT !.plan = Tail(@)]
<1>1. "probe" \in Movers /\ t \in TaskType /\ t.plan \in Seq(Pose) /\ t.base \in Pose
  BY DEF Movers, TasksType, TaskType
<1>2. TaskAt("probe", "restoring")
  BY DEF RestoreStep
<1>3. \/ t.plan = <<>> /\ UNCHANGED robotVars /\ Raises("probe")
      \/ t.plan = <<>> /\ UNCHANGED robotVars /\ Done("probe", t.base)
      \/ t.plan # <<>> /\ Accepted(q) /\ Becomes("probe", r)
      \/ t.plan # <<>> /\ Rejected(q) /\ Raises("probe")
  BY Zenon DEF RestoreStep
<1>4. t.plan # <<>> => q \in Pose /\ Tail(t.plan) \in Seq(Pose)
  BY <1>1, HeadTailProperties
<1>5. t.plan # <<>> =>
        /\ r \in TaskType /\ r.at = "restoring" /\ r.plan = Tail(t.plan)
        /\ r.base = t.base /\ r.todo = t.todo
  BY <1>1, <1>2, <1>4 DEF TaskType, TaskAt
<1> HIDE DEF q, r
<1>6. CASE t.plan = <<>> /\ UNCHANGED robotVars /\ Raises("probe")
  BY <1>1, <1>2, <1>6, RobotStays, RaisesOnly DEF TaskAt
<1>7. CASE t.plan = <<>> /\ UNCHANGED robotVars /\ Done("probe", t.base)
  <2>1. RobotType' /\ pose' = pose
    BY <1>7, RobotStays
  <2>2. /\ TasksType' /\ task'["probe"].at = "done" /\ task'["probe"].base = t.base
        /\ \A x \in Movers : x # "probe" => task'[x] = task[x]
    BY <1>1, <1>7, DoneFacts
  <2> QED BY <2>1, <2>2, <1>2, <1>7 DEF Only, TaskAt
<1>8. CASE t.plan # <<>> /\ Accepted(q) /\ Becomes("probe", r)
  <2>1. RobotType' /\ pose' = q
    BY <1>4, <1>8, AcceptedFacts
  <2>2. TasksType' /\ task'["probe"] = r /\ \A x \in Movers : x # "probe" => task'[x] = task[x]
    BY <1>1, <1>5, <1>8, BecomesFacts
  <2> QED BY <2>1, <2>2, <1>2, <1>5, <1>8 DEF Only, TaskAt, KeepsBase, q
<1>9. CASE t.plan # <<>> /\ Rejected(q) /\ Raises("probe")
  <2>1. RobotType' /\ PartOfIt(q)
    BY <1>4, <1>9, RejectedFacts DEF PartOfIt
  <2> QED BY <2>1, <1>1, <1>2, <1>9, RaisesOnly DEF TaskAt, q
<1> QED BY <1>3, <1>6, <1>7, <1>8, <1>9

-----------------------------------------------------------------------------
(* The steps of yam_move_to_depth_pixel.py and of the servo.               *)

(* A command that changes the right arm by at most MaxJoint.               *)
LEMMA ToArmFacts ==
  ASSUME NEW q \in Pose, NEW x \in Int, Distance(q["right"], x) <= MaxJoint
  PROVE  /\ [q EXCEPT !["right"] = x] \in Pose
         /\ Bounded(q, [q EXCEPT !["right"] = x])
<1>1. "left" \in Parts /\ "right" \in Parts
  BY DEF Parts, Arms
<1> QED BY <1>1 DEF Pose, Bounded

(* The pixel move is one bounded plan from where the robot is.             *)
LEMMA PixelPlansFacts ==
  ASSUME RobotType, TasksType, PixelPlans
  PROVE  /\ Only("pixel") /\ pose' = pose
         /\ Fails("pixel") \/ (task'["pixel"].at = "moves" /\ Chain(pose, task'["pixel"].plan))
<1>1. "pixel" \in Movers /\ pose \in Pose /\ pose["right"] \in Int /\ MaxJoint \in Nat
  BY AssumedTypes DEF Movers, RobotType, Pose, Parts, Arms
<1>2. RobotType' /\ pose' = pose
  BY RobotStays DEF PixelPlans
<1>3. CASE Raises("pixel")
  BY <1>1, <1>2, <1>3, RaisesOnly
<1>4. CASE ~Raises("pixel")
  <2>1. PICK d \in Deltas :
          Becomes("pixel", [Fresh EXCEPT !.at = "moves",
            !.plan = <<[pose EXCEPT !["right"] = BoundedArmTarget(@, @ + d)]>>])
    BY Zenon, <1>4 DEF PixelPlans
  <2> DEFINE x == BoundedArmTarget(pose["right"], pose["right"] + d)
             q == [pose EXCEPT !["right"] = x]
             t == [Fresh EXCEPT !.at = "moves", !.plan = <<q>>]
  <2>2. Becomes("pixel", t)
    BY <2>1
  <2>3. x \in Int /\ Distance(pose["right"], x) <= MaxJoint
    <3>1. pose["right"] + d \in Int
      BY <1>1, AssumedTypes
    <3> QED BY <3>1, <1>1, SteppedFacts DEF BoundedArmTarget
  <2> HIDE DEF x
  <2>4. q \in Pose /\ Bounded(pose, q)
    BY <1>1, <2>3, ToArmFacts
  <2> HIDE DEF q
  <2>5. Chain(pose, <<q>>) /\ <<q>> \in Seq(Pose)
    BY <1>1, <2>4, ChainOfOne
  <2>6. t \in TaskType /\ t.at = "moves" /\ t.plan = <<q>>
    <3>1. "moves" \in Places
      BY DEF Places
    <3> QED BY <3>1, <2>5, FreshType DEF TaskType
  <2> HIDE DEF t
  <2> QED BY <1>1, <1>2, <2>2, <2>5, <2>6, BecomesFacts DEF Only
<1> QED BY <1>3, <1>4

(* It ends with its last command.                                          *)
LEMMA PixelMovedFacts ==
  ASSUME RobotType, TasksType, PixelMoved
  PROVE  Only("pixel") /\ pose' = pose /\ task'["pixel"].at = "done"
<1>1. "pixel" \in Movers /\ task["pixel"].base \in Pose
  BY DEF Movers, TasksType, TaskType
<1>2. RobotType' /\ pose' = pose
  BY RobotStays DEF PixelMoved
<1>3. Done("pixel", task["pixel"].base)
  BY DEF PixelMoved
<1> QED BY <1>1, <1>2, <1>3, DoneFacts DEF Only

ServoPlaces == {"observes", "probes", "probed", "returns", "updates", "reads"}

(* The servo starts from where the robot is.                               *)
LEMMA ServoBeginsFacts ==
  ASSUME RobotType, TasksType, ServoBegins
  PROVE  /\ Only("servo") /\ pose' = pose
         /\ \/ Fails("servo")
            \/ /\ task'["servo"].at = "observes" /\ task'["servo"].base = pose
               /\ task'["servo"].todo # <<>>
<1> DEFINE todo == [i \in 1 .. Rounds |-> i]
           t == [Fresh EXCEPT !.at = "observes", !.base = pose, !.todo = todo]
<1>1. "servo" \in Movers /\ pose \in Pose
  BY DEF Movers, RobotType
<1>2. RobotType' /\ pose' = pose
  BY RobotStays DEF ServoBegins
<1>3. Raises("servo") \/ Becomes("servo", t)
  BY Zenon DEF ServoBegins
<1>4. todo \in Seq(Int) /\ todo # <<>>
  BY AssumedTypes
<1> HIDE DEF todo
<1>5. t \in TaskType /\ t.at = "observes" /\ t.base = pose /\ t.todo = todo
  <2>1. "observes" \in Places
    BY DEF Places
  <2> QED BY <2>1, <1>1, <1>4, FreshType DEF TaskType
<1> HIDE DEF t
<1>6. CASE Raises("servo")
  BY <1>1, <1>2, <1>6, RaisesOnly
<1>7. CASE Becomes("servo", t)
  BY <1>1, <1>2, <1>4, <1>5, <1>7, BecomesFacts DEF Only
<1> QED BY <1>3, <1>6, <1>7

(* The requests of the servo that move nothing.                            *)
LEMMA ServoLooksFacts ==
  ASSUME RobotType, TasksType, NEW next \in Places,
         UNCHANGED robotVars, Raises("servo") \/ TaskGoes("servo", next)
  PROVE  /\ Only("servo") /\ pose' = pose
         /\ Fails("servo") \/ (task'["servo"].at = next /\ KeepsBase("servo"))
<1>1. "servo" \in Movers /\ RobotType' /\ pose' = pose
  BY RobotStays DEF Movers
<1>2. CASE Raises("servo")
  BY <1>1, <1>2, RaisesOnly
<1>3. CASE TaskGoes("servo", next)
  BY <1>1, <1>3, GoesFacts DEF Only, KeepsBase
<1> QED BY <1>2, <1>3

(* Those that command a pose.                                              *)
LEMMA ServoSendsFacts ==
  ASSUME RobotType, TasksType, NEW at, NEW q \in Pose, NEW next \in Places,
         ServoSends(at, q, next)
  PROVE  /\ TaskAt("servo", at) /\ Only("servo")
         /\ \/ pose' = q /\ task'["servo"].at = next /\ KeepsBase("servo")
            \/ PartOfIt(q) /\ Fails("servo")
<1>1. "servo" \in Movers
  BY DEF Movers
<1>2. TaskAt("servo", at)
  BY DEF ServoSends
<1>3. CASE Accepted(q) /\ TaskGoes("servo", next)
  BY <1>1, <1>2, <1>3, AcceptedFacts, GoesFacts DEF Only, KeepsBase
<1>4. CASE Rejected(q) /\ Raises("servo")
  BY <1>1, <1>2, <1>4, RejectedFacts, RaisesOnly DEF PartOfIt
<1> QED BY <1>3, <1>4 DEF ServoSends

(* After a step the servo reads where the robot is, and stops or goes on.  *)
LEMMA ServoReadsFacts ==
  ASSUME RobotType, TasksType, ServoReads, task["servo"].todo # <<>>
  PROVE  /\ Only("servo") /\ pose' = pose
         /\ \/ Fails("servo")
            \/ task'["servo"].at = "done"
            \/ /\ task'["servo"].at = "observes" /\ task'["servo"].base = pose
               /\ task'["servo"].todo # <<>>
<1> DEFINE todo == task["servo"].todo
           rest == Tail(todo)
           t == [task["servo"] EXCEPT !.at = "observes", !.base = pose, !.todo = rest]
<1>1. "servo" \in Movers /\ pose \in Pose /\ task["servo"] \in TaskType /\ todo \in Seq(Int)
  BY DEF Movers, RobotType, TasksType, TaskType
<1>2. RobotType' /\ pose' = pose
  BY RobotStays DEF ServoReads
<1>3. rest \in Seq(Int)
  BY <1>1, HeadTailProperties
<1>4. Raises("servo") \/ Done("servo", pose) \/ (rest # <<>> /\ Becomes("servo", t))
  BY Zenon DEF ServoReads
<1> HIDE DEF rest
<1>5. t \in TaskType /\ t.at = "observes" /\ t.base = pose /\ t.todo = rest
  BY <1>1, <1>3 DEF TaskType, Places
<1> HIDE DEF t
<1>6. CASE Raises("servo")
  BY <1>1, <1>2, <1>6, RaisesOnly
<1>7. CASE Done("servo", pose)
  BY <1>1, <1>2, <1>7, DoneFacts DEF Only
<1>8. CASE rest # <<>> /\ Becomes("servo", t)
  BY <1>1, <1>2, <1>5, <1>8, BecomesFacts DEF Only
<1> QED BY <1>4, <1>6, <1>7, <1>8

-----------------------------------------------------------------------------
(* The steps of yam_exec_loop.py.                                          *)

Observations == [px : SUBSET Nat, m : SUBSET Nat, real : Nat]

RoundType ==
  [tool : Tools \cup {"none"}, done : BOOLEAN, before : Observations, after : Observations,
   moved : BOOLEAN]

RecordType ==
  [tool : Tools \cup {"none"}, executed : BOOLEAN,
   check : {"none", "invalid", "closer", "farther"}, gain : Int]

ExecType == round \in RoundType /\ transcript \in Seq(RecordType)

(* Every distance an observation has is the one the gripper had.           *)
Observed(o) == o.px \subseteq {o.real} /\ o.m \subseteq o.px

ObservationsAreTrue == Observed(round.before) /\ Observed(round.after)

RecordsStay == UNCHANGED <<round, transcript>>

(* An observation tells where the tool and the target are, when it has     *)
(* depth.                                                                  *)
LEMMA ObservationFacts ==
  ASSUME RobotType, NEW depth \in BOOLEAN, NEW seen, located' = Located(seen)
  PROVE  Observation(depth) \in Observations /\ Observed(Observation(depth))
<1> DEFINE real == Distance(Target, pose["right"])
           px == {Distance(t, g) : t \in located'.target, g \in located'.gripper}
<1>1. real \in Nat
  BY AssumedTypes DEF RobotType, Pose, Parts, Arms, Distance
<1>2. located'.target \subseteq {Target} /\ located'.gripper \subseteq {pose["right"]}
  BY DEF Located
<1>3. px \subseteq {real}
  BY <1>2
<1> HIDE DEF real, px
<1>4. Observation(depth) = [px |-> px, m |-> IF depth THEN px ELSE {}, real |-> real]
  BY DEF Observation, px, real
<1> QED BY <1>1, <1>3, <1>4 DEF Observations, Observed

(* A round that has not begun observed nothing.                            *)
LEMMA NoRoundFacts ==
  NoRound \in RoundType /\ Observed(NoRound.before) /\ Observed(NoRound.after)
  BY DEF NoRound, NoObservation, RoundType, Observations, Observed

(* The first observation of a round.                                       *)
LEMMA ExecObservesFacts ==
  ASSUME RobotType, TasksType, ExecType, ObservationsAreTrue, ExecObserves
  PROVE  /\ TaskAt("exec", "none") /\ Only("exec") /\ pose' = pose
         /\ ExecType' /\ ObservationsAreTrue' /\ transcript' = transcript
         /\ Fails("exec") \/ task'["exec"].at = "decides"
<1>1. "exec" \in Movers /\ "decides" \in Places
  BY DEF Movers, Places
<1>2. TaskAt("exec", "none") /\ RobotType' /\ pose' = pose
  BY RobotStays DEF ExecObserves
<1>3. CASE Raises("exec") /\ UNCHANGED execVars
  <2>1. round' = round /\ transcript' = transcript
    BY <1>3 DEF execVars
  <2> QED BY <2>1, <1>1, <1>2, <1>3, RaisesOnly DEF ExecType, ObservationsAreTrue
<1>4. CASE ~(Raises("exec") /\ UNCHANGED execVars)
  <2>1. PICK seen \in Findings, depth \in BOOLEAN :
          /\ Observes("decides", seen)
          /\ round' = [NoRound EXCEPT !.before = Observation(depth)]
    BY Zenon, <1>4 DEF ExecObserves
  <2>2. TaskGoes("exec", "decides") /\ located' = Located(seen) /\ transcript' = transcript
    BY <2>1 DEF Observes
  <2>3. Observation(depth) \in Observations /\ Observed(Observation(depth))
    BY <2>2, ObservationFacts
  <2> DEFINE o == Observation(depth)
  <2> HIDE DEF o
  <2>4. /\ [NoRound EXCEPT !.before = o] \in RoundType
        /\ [NoRound EXCEPT !.before = o].before = o
        /\ [NoRound EXCEPT !.before = o].after = NoRound.after
    BY <2>3, NoRoundFacts DEF RoundType, o
  <2>5. ExecType' /\ ObservationsAreTrue'
    BY <2>1, <2>2, <2>3, <2>4, NoRoundFacts DEF ExecType, ObservationsAreTrue, o
  <2> QED BY <2>2, <2>5, <1>1, <1>2, GoesFacts DEF Only
<1> QED BY <1>3, <1>4

(* The model chooses a tool.                                               *)
LEMMA ExecDecidesFacts ==
  ASSUME RobotType, TasksType, ExecType, ObservationsAreTrue, ExecDecides
  PROVE  /\ TaskAt("exec", "decides") /\ Only("exec") /\ pose' = pose
         /\ ExecType' /\ ObservationsAreTrue' /\ transcript' = transcript
         /\ task'["exec"].at \in {"raised", "plans", "aims", "grips"}
<1>1. "exec" \in Movers /\ task["exec"] \in TaskType
  BY DEF Movers, TasksType
<1>2. TaskAt("exec", "decides") /\ RobotType' /\ pose' = pose /\ transcript' = transcript
  BY RobotStays DEF ExecDecides
<1>3. CASE Raises("exec") /\ UNCHANGED round
  BY <1>1, <1>2, <1>3, RaisesOnly DEF ExecType, ObservationsAreTrue, Fails
<1>4. CASE ~(Raises("exec") /\ UNCHANGED round)
  <2>1. PICK tool \in Tools, done \in BOOLEAN, d \in Deltas :
          /\ round' = [round EXCEPT !.tool = tool, !.done = done]
          /\ Becomes("exec", [task["exec"] EXCEPT
               !.at = CASE tool = "cartesian" -> "plans"
                        [] tool = "wrist"     -> "aims"
                        [] OTHER              -> "grips",
               !.goes = IF tool = "cartesian" THEN Clip(d, MaxDelta) ELSE 0])
    BY Zenon, <1>4 DEF ExecDecides
  <2> DEFINE at == CASE tool = "cartesian" -> "plans"
                     [] tool = "wrist"     -> "aims"
                     [] OTHER              -> "grips"
             goes == IF tool = "cartesian" THEN Clip(d, MaxDelta) ELSE 0
             t == [task["exec"] EXCEPT !.at = at, !.goes = goes]
  <2>2. at \in {"plans", "aims", "grips"}
    BY DEF Tools
  <2>3. goes \in Int
    BY AssumedTypes DEF Clip
  <2>4. Becomes("exec", t)
    BY <2>1
  <2> HIDE DEF at, goes
  <2>5. t \in TaskType /\ t.at = at
    BY <1>1, <2>2, <2>3 DEF TaskType, Places
  <2> HIDE DEF t
  <2>6. round' \in RoundType /\ round'.before = round.before /\ round'.after = round.after
    BY <2>1 DEF ExecType, RoundType
  <2>7. ExecType' /\ ObservationsAreTrue'
    BY <2>6, <1>2 DEF ExecType, ObservationsAreTrue
  <2> QED BY <1>1, <1>2, <2>2, <2>4, <2>5, <2>7, BecomesFacts DEF Only
<1> QED BY <1>3, <1>4

(* A gripper tool is one command from where the robot is.                  *)
LEMMA ExecGripsFacts ==
  ASSUME RobotType, TasksType, ExecGrips
  PROVE  /\ TaskAt("exec", "grips") /\ Only("exec") /\ pose' = pose
         /\ \/ Fails("exec")
            \/ /\ task'["exec"].at = "gripping" /\ task'["exec"].plan # <<>>
               /\ Chain(pose, task'["exec"].plan)
<1>1. "exec" \in Movers /\ task["exec"] \in TaskType /\ pose \in Pose
  BY DEF Movers, TasksType, RobotType
<1>2. TaskAt("exec", "grips") /\ RobotType' /\ pose' = pose
  BY RobotStays DEF ExecGrips
<1>3. CASE Raises("exec")
  BY <1>1, <1>2, <1>3, RaisesOnly
<1>4. CASE ~Raises("exec")
  <2>1. PICK value \in {0, 1} :
          Becomes("exec", [task["exec"] EXCEPT
            !.at = "gripping", !.plan = <<[pose EXCEPT !["grip"] = value]>>])
    BY Zenon, <1>4 DEF ExecGrips
  <2> DEFINE q == [pose EXCEPT !["grip"] = value]
             t == [task["exec"] EXCEPT !.at = "gripping", !.plan = <<q>>]
  <2>2. q \in Pose /\ Bounded(pose, q)
    BY <1>1, AssumedTypes DEF Pose, Parts, Arms, Bounded, Distance
  <2>3. Becomes("exec", t)
    BY <2>1
  <2> HIDE DEF q
  <2>4. Chain(pose, <<q>>) /\ <<q>> \in Seq(Pose) /\ <<q>> # <<>>
    BY <1>1, <2>2, ChainOfOne
  <2>5. t \in TaskType /\ t.at = "gripping" /\ t.plan = <<q>>
    BY <1>1, <2>4 DEF TaskType, Places
  <2> HIDE DEF t
  <2> QED BY <1>1, <1>2, <2>3, <2>4, <2>5, BecomesFacts DEF Only
<1> QED BY <1>3, <1>4

(* That command is taken, or fails.                                        *)
LEMMA ExecGrippedFacts ==
  ASSUME RobotType, TasksType, ExecGripped, task["exec"].plan # <<>>
  PROVE  LET q == task["exec"].plan[1]
         IN /\ TaskAt("exec", "gripping") /\ Only("exec") /\ q \in Pose
            /\ \/ pose' = q /\ task'["exec"].at = "records"
               \/ PartOfIt(q) /\ Fails("exec")
<1> DEFINE q == task["exec"].plan[1]
           t == [Fresh EXCEPT !.at = "records"]
<1>1. "exec" \in Movers /\ task["exec"].plan \in Seq(Pose)
  BY DEF Movers, TasksType, TaskType
<1>2. q \in Pose
  BY <1>1
<1>3. TaskAt("exec", "gripping")
  BY DEF ExecGripped
<1>4. t \in TaskType /\ t.at = "records"
  BY FreshType, PlacedFacts, "records" \in Places DEF Places
<1>5. (Accepted(q) /\ Becomes("exec", t)) \/ (Rejected(q) /\ Raises("exec"))
  BY DEF ExecGripped
<1> HIDE DEF q, t
<1>6. CASE Accepted(q) /\ Becomes("exec", t)
  BY <1>1, <1>2, <1>3, <1>4, <1>6, AcceptedFacts, BecomesFacts DEF Only, q
<1>7. CASE Rejected(q) /\ Raises("exec")
  BY <1>1, <1>2, <1>3, <1>7, RejectedFacts, RaisesOnly DEF PartOfIt, q
<1> QED BY <1>5, <1>6, <1>7

(* A move of the exec loop ends.                                           *)
LEMMA ExecMovedFacts ==
  ASSUME RobotType, TasksType, ExecType, ObservationsAreTrue, ExecMoved
  PROVE  /\ TaskAt("exec", "moves") /\ Only("exec") /\ pose' = pose
         /\ ExecType' /\ ObservationsAreTrue' /\ transcript' = transcript
         /\ task'["exec"].at = "checks"
<1>1. "exec" \in Movers /\ "checks" \in Places
  BY DEF Movers, Places
<1>2. TaskAt("exec", "moves") /\ RobotType' /\ pose' = pose /\ transcript' = transcript
  BY RobotStays DEF ExecMoved, Sent
<1>3. TaskGoes("exec", "checks") /\ round' = [round EXCEPT !.moved = TRUE]
  BY DEF ExecMoved
<1>4. round' \in RoundType /\ round'.before = round.before /\ round'.after = round.after
  BY <1>3 DEF ExecType, RoundType
<1>5. ExecType' /\ ObservationsAreTrue'
  BY <1>2, <1>4 DEF ExecType, ObservationsAreTrue
<1> QED BY <1>1, <1>2, <1>3, <1>5, GoesFacts DEF Only

(* The second observation of a round, which the check compares with the    *)
(* first.                                                                  *)
LEMMA ExecChecksFacts ==
  ASSUME RobotType, TasksType, ExecType, ObservationsAreTrue, ExecChecks
  PROVE  /\ TaskAt("exec", "checks") /\ Only("exec") /\ pose' = pose
         /\ ExecType' /\ ObservationsAreTrue' /\ transcript' = transcript
         /\ Fails("exec") \/ task'["exec"].at = "records"
<1>1. "exec" \in Movers /\ "records" \in Places
  BY DEF Movers, Places
<1>2. TaskAt("exec", "checks") /\ RobotType' /\ pose' = pose
  BY RobotStays DEF ExecChecks
<1>3. CASE Raises("exec") /\ UNCHANGED execVars
  <2>1. round' = round /\ transcript' = transcript
    BY <1>3 DEF execVars
  <2> QED BY <2>1, <1>1, <1>2, <1>3, RaisesOnly DEF ExecType, ObservationsAreTrue
<1>4. CASE ~(Raises("exec") /\ UNCHANGED execVars)
  <2>1. PICK seen \in Findings, depth \in BOOLEAN :
          /\ Observes("records", seen)
          /\ round' = [round EXCEPT !.after = Observation(depth)]
    BY Zenon, <1>4 DEF ExecChecks
  <2>2. TaskGoes("exec", "records") /\ located' = Located(seen) /\ transcript' = transcript
    BY <2>1 DEF Observes
  <2> DEFINE o == Observation(depth)
  <2>3. o \in Observations /\ Observed(o) /\ round' = [round EXCEPT !.after = o]
    BY <2>1, <2>2, ObservationFacts
  <2> HIDE DEF o
  <2>4. round' \in RoundType /\ round'.before = round.before /\ round'.after = o
    BY <2>3 DEF ExecType, RoundType
  <2>5. ExecType' /\ ObservationsAreTrue'
    BY <2>2, <2>3, <2>4 DEF ExecType, ObservationsAreTrue
  <2> QED BY <2>2, <2>5, <1>1, <1>2, GoesFacts DEF Only
<1> QED BY <1>3, <1>4

(* What a check says of what the gripper gained.                           *)
CheckMeans(check, gain) ==
  /\ check = "closer" => \E unit \in Units : gain > Tolerance[unit]
  /\ check = "farther" => \E unit \in Units : gain <= Tolerance[unit]

(* A check that had distances to compare says whether the gripper came     *)
(* closer by more than the tolerance of its unit.                          *)
LEMMA ProgressCheckIsTrue ==
  ASSUME NEW before \in Observations, NEW after \in Observations,
         Observed(before), Observed(after)
  PROVE  /\ ProgressCheck(before, after) \in {"invalid", "closer", "farther"}
         /\ CheckMeans(ProgressCheck(before, after), before.real - after.real)
<1> DEFINE units == {unit \in Units : before[unit] # {} /\ after[unit] # {}}
           unit == IF "m" \in units THEN "m" ELSE "px"
           nearer == \E b \in before[unit], a \in after[unit] : b - a > Tolerance[unit]
<1>1. ProgressCheck(before, after) =
        IF units = {} THEN "invalid" ELSE IF nearer THEN "closer" ELSE "farther"
  BY DEF ProgressCheck
<1>2. ASSUME units # {} PROVE before[unit] = {before.real} /\ after[unit] = {after.real}
  <2>1. unit \in units
    BY <1>2 DEF Units
  <2>2. unit \in {"m", "px"} /\ before[unit] # {} /\ after[unit] # {}
    BY <2>1 DEF Units
  <2> HIDE DEF unit, units
  <2>3. before[unit] \subseteq {before.real} /\ after[unit] \subseteq {after.real}
    <3>1. CASE unit = "m"
      BY <3>1 DEF Observed
    <3>2. CASE unit = "px"
      BY <3>2 DEF Observed
    <3> QED BY <2>2, <3>1, <3>2
  <2> QED BY <2>2, <2>3
<1>3. units # {} => (nearer <=> before.real - after.real > Tolerance[unit])
  <2> HIDE DEF unit, units
  <2> QED BY <1>2
<1>4. /\ unit \in Units /\ Tolerance[unit] \in Int
      /\ before.real - after.real \in Int
  BY AssumedTypes DEF Units, Observations
<1> HIDE DEF units, unit, nearer
<1>5. before.real - after.real > Tolerance[unit] \/ before.real - after.real <= Tolerance[unit]
  BY <1>4
<1> QED BY <1>1, <1>3, <1>4, <1>5 DEF CheckMeans

RecordIsTrue(record) == CheckMeans(record.check, record.gain)

(* What a round is recorded as is what its two observations say, and only  *)
(* a Cartesian move that took the tool away from its target stops the      *)
(* loop.                                                                   *)
LEMMA RecordFacts ==
  ASSUME ExecType, ObservationsAreTrue
  PROVE  /\ Record \in RecordType /\ RecordIsTrue(Record)
         /\ StopsAfter(Record) <=> Record.tool = "cartesian" /\ Record.check = "farther"
<1> DEFINE check == IF round.moved THEN ProgressCheck(round.before, round.after) ELSE "none"
           gain == round.before.real - round.after.real
<1>1. Record = [tool |-> round.tool, executed |-> round.moved, check |-> check, gain |-> gain]
  BY DEF Record
<1>2. /\ round.tool \in Tools \cup {"none"} /\ round.moved \in BOOLEAN
      /\ round.before \in Observations /\ round.after \in Observations
  BY DEF ExecType, RoundType
<1>3. /\ check \in {"none", "invalid", "closer", "farther"}
      /\ CheckMeans(check, gain)
  <2>1. CASE round.moved
    BY <1>2, <2>1, ProgressCheckIsTrue DEF ObservationsAreTrue
  <2>2. CASE ~round.moved
    BY <2>2 DEF CheckMeans
  <2> QED BY <2>1, <2>2
<1>4. gain \in Int
  BY <1>2 DEF Observations
<1> HIDE DEF check, gain
<1>5. Record \in RecordType
  BY <1>1, <1>2, <1>3, <1>4 DEF RecordType
<1>6. Record.check = check /\ Record.gain = gain
  BY <1>1
<1>7. RecordIsTrue(Record)
  BY <1>3, <1>6, Zenon DEF RecordIsTrue
<1> QED BY <1>5, <1>7 DEF StopsAfter

(* The record of a round is appended, and one that failed its check is the *)
(* last.                                                                   *)
LEMMA ExecRecordsFacts ==
  ASSUME RobotType, TasksType, ExecType, ObservationsAreTrue, ExecRecords
  PROVE  /\ TaskAt("exec", "records") /\ Only("exec") /\ pose' = pose
         /\ ExecType' /\ ObservationsAreTrue'
         /\ transcript' = Append(transcript, Record)
         /\ task'["exec"].at \in {"done", "none"}
         /\ StopsAfter(Record) => task'["exec"].at = "done"
<1> DEFINE stops == round.done \/ StopsAfter(Record) \/ Len(transcript) + 1 = MaxSteps
<1>1. "exec" \in Movers /\ task["exec"].base \in Pose
  BY DEF Movers, TasksType, TaskType
<1>2. /\ TaskAt("exec", "records") /\ RobotType' /\ pose' = pose
      /\ transcript' = Append(transcript, Record) /\ round' = NoRound
  BY RobotStays DEF ExecRecords
<1>3. ExecType' /\ ObservationsAreTrue'
  <2>1. Record \in RecordType
    BY RecordFacts
  <2>2. Append(transcript, Record) \in Seq(RecordType)
    BY <2>1, AppendProperties DEF ExecType
  <2> QED BY <1>2, <2>2, NoRoundFacts DEF ExecType, ObservationsAreTrue
<1>4. IF stops THEN Done("exec", task["exec"].base) ELSE Becomes("exec", Fresh)
  BY Zenon DEF ExecRecords
<1>5. StopsAfter(Record) => stops
  OBVIOUS
<1> HIDE DEF stops
<1>6. CASE stops
  <2>1. Done("exec", task["exec"].base)
    BY <1>4, <1>6
  <2> QED BY <1>1, <1>2, <1>3, <2>1, DoneFacts DEF Only
<1>7. CASE ~stops
  <2>1. Becomes("exec", Fresh)
    BY <1>4, <1>7
  <2>2. Fresh.at = "none"
    BY DEF Fresh
  <2> QED BY <1>1, <1>2, <1>3, <1>5, <1>7, <2>1, <2>2, FreshType, BecomesFacts DEF Only
<1> QED BY <1>6, <1>7

-----------------------------------------------------------------------------
(* The switchboard, the leader bridges and yam_leader_ws_bridge.py.        *)

BridgeType ==
  [at : {"none", "starts", "runs"}, arms : SUBSET Arms, wait : BOOLEAN, base : Pose, lead : Int,
   command : Pose, flight : Int, stop : BOOLEAN]

WireType == [queue : Seq(Pose), replies : Nat]

HandType ==
  [at : {"none", "reads", "sends", "raised"}, command : Pose, synced : BOOLEAN,
   pressed : BOOLEAN, deadman : BOOLEAN]

TeleopType ==
  /\ leader \in Int /\ moves \in Nat
  /\ bridge \in [Bridges -> BridgeType]
  /\ wire \in [Bridges -> WireType]
  /\ runtime \in Bridges \cup {NoBridge}
  /\ web \in [Webs -> {"idle", "start", "stop", "check"}]
  /\ hand \in HandType

OffIsOff == Off \in BridgeType /\ Off.at = "none"

(* A bridge that was never spawned is in no state that lives.              *)
LEMMA OffFacts == OffIsOff
  BY DEF OffIsOff, Off, BridgeType, Origin, Pose

(* A wire with nothing on it.                                              *)
LEMMA SilentType == Silent \in WireType
  BY DEF Silent, WireType

(* What a change of one bridge's record means for OneBridge.               *)
LEMMA BridgeBecomes ==
  ASSUME TeleopType, NEW b \in Bridges, NEW s \in BridgeType, bridge' = [bridge EXCEPT ![b] = s]
  PROVE  /\ bridge' \in [Bridges -> BridgeType] /\ bridge'[b] = s
         /\ \A c \in Bridges : c # b => bridge'[c] = bridge[c]
  BY DEF TeleopType

(* The requests to the switchboard: stop or start is accepted.             *)
LEMMA WebAsksFacts ==
  ASSUME RobotType, TeleopType, OneBridge, NEW w \in Webs, WebAsks(w)
  PROVE  RobotType' /\ pose' = pose /\ TeleopType' /\ OneBridge' /\ hand' = hand
<1>1. RobotType' /\ pose' = pose
  BY RobotStays DEF WebAsks
<1>2. /\ leader' = leader /\ moves' = moves /\ wire' = wire /\ runtime' = runtime
      /\ hand' = hand
  BY DEF WebAsks
<1>3. web' \in [Webs -> {"idle", "start", "stop", "check"}]
  <2>1. PICK request \in {"start", "stop"} : web' = [web EXCEPT ![w] = request]
    BY DEF WebAsks, WebGoes
  <2> QED BY <2>1 DEF TeleopType
<1>4. bridge' \in [Bridges -> BridgeType] /\ \A b \in Bridges : bridge'[b].at = bridge[b].at
  <2>1. CASE RuntimeLives
    <3>1. runtime \in Bridges
      BY <2>1 DEF RuntimeLives, TeleopType
    <3> DEFINE s == [bridge[runtime] EXCEPT !.stop = TRUE]
    <3>2. bridge' = [bridge EXCEPT ![runtime] = s]
      BY <2>1 DEF WebAsks
    <3>3. bridge[runtime] \in BridgeType
      BY <3>1 DEF TeleopType
    <3>4. s \in BridgeType /\ s.at = bridge[runtime].at
      BY <3>3 DEF BridgeType
    <3> HIDE DEF s
    <3> QED BY <3>1, <3>2, <3>4, BridgeBecomes
  <2>2. CASE ~RuntimeLives
    BY <2>2 DEF WebAsks, TeleopType
  <2> QED BY <2>1, <2>2
<1>5. TeleopType'
  BY <1>2, <1>3, <1>4 DEF TeleopType
<1>6. OneBridge'
  BY <1>2, <1>4 DEF OneBridge, LiveBridge
<1> QED BY <1>1, <1>2, <1>5, <1>6

(* The bridge that runtime names is dead, and so are all.                  *)
LEMMA NoneLives ==
  ASSUME TeleopType, OneBridge, ~RuntimeLives
  PROVE  \A b \in Bridges : ~LiveBridge(b)
  BY AssumedTypes DEF TeleopType, OneBridge, RuntimeLives

(* stop_process returns when the bridge has exited.                        *)
LEMMA WebStoppedFacts ==
  ASSUME RobotType, TeleopType, OneBridge, NEW w \in Webs, WebStopped(w)
  PROVE  RobotType' /\ pose' = pose /\ TeleopType' /\ OneBridge' /\ hand' = hand
<1>1. RobotType' /\ pose' = pose
  BY RobotStays DEF WebStopped
<1>2. /\ leader' = leader /\ moves' = moves /\ wire' = wire /\ bridge' = bridge
      /\ hand' = hand /\ runtime' = NoBridge /\ web' = [web EXCEPT ![w] = "idle"]
  BY DEF WebStopped, WebGoes
<1>3. TeleopType'
  BY <1>2 DEF TeleopType
<1>4. \A b \in Bridges : ~LiveBridge(b)
  BY NoneLives DEF WebStopped
<1>5. OneBridge'
  BY <1>2, <1>4 DEF OneBridge, LiveBridge
<1> QED BY <1>1, <1>2, <1>3, <1>5

(* start_process spawns a bridge only when none lives.                     *)
LEMMA WebSpawnsFacts ==
  ASSUME RobotType, TeleopType, OneBridge, NEW w \in Webs, WebSpawns(w)
  PROVE  RobotType' /\ pose' = pose /\ TeleopType' /\ OneBridge' /\ hand' = hand
<1>1. RobotType' /\ pose' = pose
  BY RobotStays DEF WebSpawns
<1>2. /\ leader' = leader /\ moves' = moves /\ wire' = wire /\ hand' = hand
      /\ web' = [web EXCEPT ![w] = "check"]
  BY DEF WebSpawns, WebGoes
<1>3. PICK b \in Bridges, arms \in {{"left"}, Arms}, wait \in BOOLEAN :
        /\ bridge' = [bridge EXCEPT ![b] = [Off EXCEPT !.at = "starts", !.arms = arms, !.wait = wait]]
        /\ runtime' = b
  BY DEF WebSpawns
<1> DEFINE s == [Off EXCEPT !.at = "starts", !.arms = arms, !.wait = wait]
<1>4. s \in BridgeType
  BY OffFacts DEF OffIsOff, BridgeType, Arms
<1>5. bridge' = [bridge EXCEPT ![b] = s]
  BY <1>3
<1> HIDE DEF s
<1>6. bridge' \in [Bridges -> BridgeType] /\ \A c \in Bridges : c # b => bridge'[c] = bridge[c]
  BY <1>4, <1>5, BridgeBecomes
<1>7. web' \in [Webs -> {"idle", "start", "stop", "check"}]
  BY <1>2 DEF TeleopType
<1>8. TeleopType'
  BY <1>2, <1>3, <1>6, <1>7 DEF TeleopType
<1>9. \A c \in Bridges : ~LiveBridge(c)
  BY NoneLives DEF WebSpawns
<1>10. OneBridge'
  BY <1>3, <1>6, <1>9 DEF OneBridge, LiveBridge
<1> QED BY <1>1, <1>2, <1>8, <1>10

(* The poll of a bridge that was just spawned.                             *)
LEMMA WebChecksFacts ==
  ASSUME RobotType, TeleopType, OneBridge, NEW w \in Webs, WebChecks(w)
  PROVE  RobotType' /\ pose' = pose /\ TeleopType' /\ OneBridge' /\ hand' = hand
<1>1. RobotType' /\ pose' = pose
  BY RobotStays DEF WebChecks
<1>2. /\ leader' = leader /\ moves' = moves /\ wire' = wire /\ bridge' = bridge
      /\ hand' = hand /\ web' = [web EXCEPT ![w] = "idle"]
      /\ runtime' = IF RuntimeLives THEN runtime ELSE NoBridge
  BY DEF WebChecks, WebGoes
<1>3. TeleopType'
  BY <1>2 DEF TeleopType
<1>4. OneBridge'
  <2>1. CASE RuntimeLives
    BY <1>2, <2>1 DEF OneBridge, LiveBridge
  <2>2. CASE ~RuntimeLives
    BY <1>2, <2>2, NoneLives DEF OneBridge, LiveBridge
  <2> QED BY <2>1, <2>2
<1> QED BY <1>1, <1>2, <1>3, <1>4

(* A bridge exits.                                                         *)
LEMMA BridgeEndsFacts ==
  ASSUME RobotType, TeleopType, OneBridge, NEW b \in Bridges, BridgeEnds(b)
  PROVE  RobotType' /\ pose' = pose /\ TeleopType' /\ OneBridge' /\ hand' = hand
<1>1. RobotType' /\ pose' = pose
  BY RobotStays DEF BridgeEnds
<1>2. /\ leader' = leader /\ moves' = moves /\ wire' = wire /\ runtime' = runtime
      /\ hand' = hand /\ web' = web /\ bridge' = [bridge EXCEPT ![b] = Off]
  BY DEF BridgeEnds
<1>3. /\ bridge' \in [Bridges -> BridgeType] /\ bridge'[b] = Off
      /\ \A c \in Bridges : c # b => bridge'[c] = bridge[c]
  BY <1>2, OffFacts, BridgeBecomes DEF OffIsOff
<1>4. TeleopType'
  BY <1>2, <1>3 DEF TeleopType
<1>5. OneBridge'
  BY <1>2, <1>3, OffFacts DEF OneBridge, LiveBridge, OffIsOff
<1> QED BY <1>1, <1>2, <1>4, <1>5

(* A live bridge that stays live under a new record.                       *)
LEMMA StaysLive ==
  ASSUME TeleopType, OneBridge, NEW b \in Bridges, LiveBridge(b), NEW s \in BridgeType,
         bridge' = [bridge EXCEPT ![b] = s], runtime' = runtime
  PROVE  bridge' \in [Bridges -> BridgeType] /\ OneBridge'
<1>1. /\ bridge' \in [Bridges -> BridgeType] /\ bridge'[b] = s
      /\ \A c \in Bridges : c # b => bridge'[c] = bridge[c]
  BY BridgeBecomes
<1>2. runtime' = b
  BY DEF OneBridge
<1> QED BY <1>1, <1>2 DEF OneBridge, LiveBridge

(* A bridge reads the pose that its commands start from.                   *)
LEMMA BridgeSyncsFacts ==
  ASSUME RobotType, TeleopType, OneBridge, NEW b \in Bridges, BridgeSyncs(b)
  PROVE  RobotType' /\ pose' = pose /\ TeleopType' /\ OneBridge' /\ hand' = hand
<1>1. RobotType' /\ pose' = pose
  BY RobotStays DEF BridgeSyncs
<1> DEFINE s == [bridge[b] EXCEPT !.at = "runs", !.base = pose, !.lead = leader, !.command = pose]
<1>2. /\ leader' = leader /\ moves' = moves /\ wire' = wire /\ runtime' = runtime
      /\ hand' = hand /\ web' = web
  BY DEF BridgeSyncs
<1>3. bridge' = [bridge EXCEPT ![b] = s]
  BY DEF BridgeSyncs, TeleopType, BridgeType
<1>4. bridge[b] \in BridgeType /\ LiveBridge(b) /\ pose \in Pose /\ leader \in Int
  BY DEF TeleopType, BridgeSyncs, LiveBridge, RobotType
<1>5. s \in BridgeType
  BY <1>4 DEF BridgeType
<1> HIDE DEF s
<1>6. bridge' \in [Bridges -> BridgeType] /\ OneBridge'
  BY <1>2, <1>3, <1>4, <1>5, StaysLive
<1>7. TeleopType'
  BY <1>2, <1>6 DEF TeleopType
<1> QED BY <1>1, <1>2, <1>6, <1>7

(* What a bridge commands is a pose.                                       *)
LEMMA NextCommandType ==
  ASSUME TeleopType, NEW b \in Bridges
  PROVE  NextCommand(bridge[b]) \in Pose
<1> DEFINE s == bridge[b]
           Part(part) == IF part \in s.arms THEN Stepped(s.command[part], TargetArm(s, part), MaxStep)
                         ELSE s.base[part]
<1>1. s \in BridgeType /\ leader \in Int
  BY DEF TeleopType
<1> HIDE DEF s
<1>2. s.command \in Pose /\ s.base \in Pose /\ s.lead \in Int
  BY <1>1 DEF BridgeType
<1>3. ASSUME NEW part \in Parts PROVE Part(part) \in Int
  <2>1. s.command[part] \in Int /\ s.base[part] \in Int
    BY <1>2 DEF Pose
  <2>2. TargetArm(s, part) \in Int
    <3>1. Clip(leader - s.lead, Reach) \in Int
      BY <1>1, <1>2, AssumedTypes DEF Clip
    <3> QED BY <3>1, <2>1 DEF TargetArm
  <2>3. Stepped(s.command[part], TargetArm(s, part), MaxStep) \in Int
    BY <2>1, <2>2, AssumedTypes, SteppedFacts
  <2> QED BY <2>1, <2>3
<1>4. NextCommand(s) = [part \in Parts |-> Part(part)]
  BY DEF NextCommand
<1> HIDE DEF Part
<1>5. NextCommand(s) \in Pose
  BY <1>3, <1>4 DEF Pose
<1> QED BY <1>5 DEF s

(* A bridge sends a command and does not wait for its reply.               *)
LEMMA BridgeFiresFacts ==
  ASSUME RobotType, TeleopType, OneBridge, NEW b \in Bridges, BridgeFires(b)
  PROVE  RobotType' /\ pose' = pose /\ TeleopType' /\ OneBridge' /\ hand' = hand
<1>1. RobotType' /\ pose' = pose
  BY RobotStays DEF BridgeFires
<1>2. leader' = leader /\ moves' = moves /\ runtime' = runtime /\ hand' = hand /\ web' = web
  BY DEF BridgeFires
<1> DEFINE flight == bridge[b].flight - wire[b].replies
           q == NextCommand(bridge[b])
           more == flight + (IF flight < MaxInFlight THEN 1 ELSE 0)
           queue == IF flight < MaxInFlight THEN Append(wire[b].queue, q) ELSE wire[b].queue
           s == [bridge[b] EXCEPT !.command = q, !.flight = more]
           l == [queue |-> queue, replies |-> 0]
<1>3. q \in Pose
  BY NextCommandType
<1>4. bridge[b] \in BridgeType /\ LiveBridge(b) /\ wire[b] \in WireType
  BY DEF TeleopType, BridgeFires, LiveBridge
<1>5. more \in Int
  <2>1. flight \in Int
    BY <1>4 DEF BridgeType, WireType
  <2> HIDE DEF flight
  <2> QED BY <2>1
<1>6. queue \in Seq(Pose)
  <2>1. wire[b].queue \in Seq(Pose)
    BY <1>4 DEF WireType
  <2> HIDE DEF q
  <2> QED BY <1>3, <2>1, AppendProperties
<1>7. bridge' = [bridge EXCEPT ![b] = s]
  BY DEF BridgeFires, TeleopType, BridgeType
<1>8. wire' = [wire EXCEPT ![b] = l]
  BY DEF BridgeFires
<1> HIDE DEF more, queue, q
<1>9. s \in BridgeType
  BY <1>3, <1>4, <1>5 DEF BridgeType
<1>10. l \in WireType
  BY <1>6 DEF WireType
<1> HIDE DEF s, l
<1>11. bridge' \in [Bridges -> BridgeType] /\ OneBridge'
  BY <1>2, <1>4, <1>7, <1>9, StaysLive
<1>12. TeleopType'
  BY <1>2, <1>8, <1>10, <1>11 DEF TeleopType
<1> QED BY <1>1, <1>2, <1>11, <1>12

(* A bridge reads replies until few enough are missing.                    *)
LEMMA BridgeWaitsFacts ==
  ASSUME RobotType, TeleopType, OneBridge, NEW b \in Bridges, BridgeWaits(b)
  PROVE  RobotType' /\ TeleopType' /\ OneBridge' /\ hand' = hand
<1>1. /\ leader' = leader /\ moves' = moves /\ wire' = wire /\ runtime' = runtime
      /\ hand' = hand /\ web' = web
  BY DEF BridgeWaits
<1> DEFINE q == NextCommand(bridge[b])
           s == [bridge[b] EXCEPT !.command = q]
<1>2. q \in Pose
  BY NextCommandType
<1>3. bridge[b] \in BridgeType /\ LiveBridge(b)
  BY DEF TeleopType, BridgeWaits, LiveBridge
<1>4. \/ Accepted(q) /\ bridge' = [bridge EXCEPT ![b].command = q]
      \/ Rejected(q) /\ bridge' = [bridge EXCEPT ![b] = Off]
  BY Zenon DEF BridgeWaits
<1> HIDE DEF q
<1>5. s \in BridgeType
  BY <1>2, <1>3 DEF BridgeType
<1>6. CASE Accepted(q) /\ bridge' = [bridge EXCEPT ![b].command = q]
  <2>1. RobotType'
    BY <1>2, <1>6, AcceptedFacts
  <2>2. bridge' = [bridge EXCEPT ![b] = s]
    BY <1>6 DEF TeleopType, BridgeType
  <2> HIDE DEF s
  <2>3. bridge' \in [Bridges -> BridgeType] /\ OneBridge'
    BY <1>1, <1>3, <1>5, <2>2, StaysLive
  <2> QED BY <1>1, <2>1, <2>3 DEF TeleopType
<1>7. CASE Rejected(q) /\ bridge' = [bridge EXCEPT ![b] = Off]
  <2>1. RobotType'
    BY <1>2, <1>7, RejectedFacts
  <2>2. /\ bridge' \in [Bridges -> BridgeType] /\ bridge'[b] = Off
        /\ \A c \in Bridges : c # b => bridge'[c] = bridge[c]
    BY <1>7, OffFacts, BridgeBecomes DEF OffIsOff
  <2>3. OneBridge'
    BY <1>1, <2>2, OffFacts DEF OneBridge, LiveBridge, OffIsOff
  <2> QED BY <1>1, <2>1, <2>2, <2>3 DEF TeleopType
<1> QED BY <1>4, <1>6, <1>7

(* The server takes a command off the wire of a bridge, a dead one too.    *)
LEMMA ServesFacts ==
  ASSUME RobotType, TeleopType, OneBridge, NEW b \in Bridges, Serves(b)
  PROVE  RobotType' /\ TeleopType' /\ OneBridge' /\ hand' = hand
<1>1. /\ leader' = leader /\ moves' = moves /\ bridge' = bridge /\ runtime' = runtime
      /\ hand' = hand /\ web' = web
  BY DEF Serves
<1> DEFINE q == Head(wire[b].queue)
           l == [wire[b] EXCEPT !.queue = Tail(@), !.replies = @ + 1]
<1>2. wire[b] \in WireType /\ wire[b].queue # <<>> /\ wire[b].queue \in Seq(Pose)
  BY DEF TeleopType, Serves, WireType
<1>3. q \in Pose /\ Tail(wire[b].queue) \in Seq(Pose)
  BY <1>2, HeadTailProperties
<1>4. wire' = [wire EXCEPT ![b] = l]
  BY <1>2 DEF Serves, TeleopType, WireType
<1>5. l \in WireType
  <2> DEFINE rest == Tail(wire[b].queue)
             more == wire[b].replies + 1
  <2>1. rest \in Seq(Pose) /\ more \in Nat
    BY <1>2, <1>3 DEF WireType
  <2>2. l = [wire[b] EXCEPT !.queue = rest, !.replies = more]
    OBVIOUS
  <2> HIDE DEF rest, more, l
  <2> QED BY <1>2, <2>1, <2>2 DEF WireType
<1>6. Accepted(q) \/ Rejected(q)
  BY DEF Serves
<1> HIDE DEF q, l
<1>7. RobotType'
  BY <1>3, <1>6, AcceptedFacts, RejectedFacts
<1>8. TeleopType'
  BY <1>1, <1>4, <1>5 DEF TeleopType
<1>9. OneBridge'
  BY <1>1 DEF OneBridge, LiveBridge
<1> QED BY <1>1, <1>7, <1>8, <1>9

(* The wire of a dead bridge closes.                                       *)
LEMMA ClosesFacts ==
  ASSUME RobotType, TeleopType, OneBridge, NEW b \in Bridges, Closes(b)
  PROVE  RobotType' /\ pose' = pose /\ TeleopType' /\ OneBridge' /\ hand' = hand
<1>1. RobotType' /\ pose' = pose
  BY RobotStays DEF Closes
<1>2. /\ leader' = leader /\ moves' = moves /\ bridge' = bridge /\ runtime' = runtime
      /\ hand' = hand /\ web' = web /\ wire' = [wire EXCEPT ![b] = Silent]
  BY DEF Closes
<1>3. TeleopType'
  BY <1>2, SilentType DEF TeleopType
<1>4. OneBridge'
  BY <1>2 DEF OneBridge, LiveBridge
<1> QED BY <1>1, <1>2, <1>3, <1>4

(* The operator moves the leader arm.                                      *)
LEMMA LeaderMovedFacts ==
  ASSUME RobotType, TeleopType, OneBridge, LeaderMoved
  PROVE  RobotType' /\ pose' = pose /\ TeleopType' /\ OneBridge' /\ hand' = hand
<1>1. RobotType' /\ pose' = pose
  BY RobotStays DEF LeaderMoved
<1>2. /\ leader' \in Int /\ moves' = moves + 1 /\ bridge' = bridge /\ runtime' = runtime
      /\ hand' = hand /\ web' = web /\ wire' = wire
  BY AssumedTypes DEF LeaderMoved
<1>3. TeleopType'
  BY <1>2 DEF TeleopType
<1>4. OneBridge'
  BY <1>2 DEF OneBridge, LiveBridge
<1> QED BY <1>1, <1>2, <1>3, <1>4

(* yam_leader_ws_bridge.py, when nobody else moves the robot, knows where  *)
(* it is, and it moves the left arm by MaxStep at most.                    *)
HandKnows == hand.at \in {"reads", "sends"} => hand.command = pose

HandMoves ==
  /\ pose'["right"] = pose["right"]
  /\ Distance(pose["left"], pose'["left"]) <= MaxStep

NoHandType == NoHand \in HandType /\ NoHand.at = "none"

(* The keyboard client before it starts.                                   *)
LEMMA NoHandFacts == NoHandType
  BY DEF NoHandType, NoHand, HandType, Origin, Pose

(* A step of the keyboard client leaves the switchboard alone.             *)
LEMMA HandStays ==
  ASSUME RobotType, TeleopType, OneBridge, hand' \in HandType,
         UNCHANGED <<leader, moves, bridge, wire, runtime, web>>
  PROVE  TeleopType' /\ OneBridge'
<1>1. TeleopType'
  BY DEF TeleopType
<1> QED BY <1>1 DEF OneBridge, LiveBridge

(* A step that moves nothing is no move of the hand.                       *)
LEMMA NoMove ==
  ASSUME RobotType, pose' = pose
  PROVE  HandMoves
  BY AssumedTypes DEF RobotType, HandMoves, Pose, Parts, Arms, Distance

(* The keyboard client reads the pose it starts from.                      *)
LEMMA HandStartsFacts ==
  ASSUME RobotType, TeleopType, OneBridge, HandStarts
  PROVE  /\ RobotType' /\ TeleopType' /\ OneBridge'
         /\ HandKnows => HandKnows' /\ HandMoves
<1>1. RobotType' /\ pose' = pose /\ pose \in Pose
  BY RobotStays DEF HandStarts, RobotType
<1>2. PICK deadman \in BOOLEAN :
        hand' = [NoHand EXCEPT !.at = "reads", !.command = pose, !.deadman = deadman]
  BY DEF HandStarts
<1>3. hand' \in HandType /\ hand'.command = pose
  BY <1>1, <1>2, NoHandFacts DEF NoHandType, HandType
<1>4. UNCHANGED <<leader, moves, bridge, wire, runtime, web>>
  BY DEF HandStarts
<1> QED BY <1>1, <1>3, <1>4, HandStays, NoMove DEF HandKnows

(* It turns a key into a command.                                          *)
LEMMA HandReadsFacts ==
  ASSUME RobotType, TeleopType, OneBridge, HandReads
  PROVE  /\ RobotType' /\ TeleopType' /\ OneBridge'
         /\ HandKnows => HandKnows' /\ HandMoves
<1>1. RobotType' /\ pose' = pose /\ pose \in Pose /\ hand \in HandType /\ hand.at = "reads"
  BY RobotStays DEF HandReads, RobotType, TeleopType
<1>2. PICK pressed \in BOOLEAN :
        LET toggled == ~hand.deadman /\ pressed /\ ~hand.pressed
        IN hand' = IF toggled /\ ~up THEN [NoHand EXCEPT !.at = "raised"]
                   ELSE [hand EXCEPT
                           !.at = "sends", !.pressed = pressed,
                           !.synced = IF hand.deadman THEN pressed ELSE @ # toggled,
                           !.command = IF toggled THEN pose ELSE @]
  BY DEF HandReads
<1> DEFINE toggled == ~hand.deadman /\ pressed /\ ~hand.pressed
           synced == IF hand.deadman THEN pressed ELSE hand.synced # toggled
           command == IF toggled THEN pose ELSE hand.command
<1>3. synced \in BOOLEAN /\ command \in Pose
  <2>1. command \in Pose
    BY <1>1 DEF HandType
  <2>2. synced \in BOOLEAN
    BY <1>1 DEF HandType
  <2> QED BY <2>1, <2>2
<1>4. \/ hand' = [NoHand EXCEPT !.at = "raised"]
      \/ hand' = [hand EXCEPT !.at = "sends", !.pressed = pressed, !.synced = synced,
                              !.command = command]
  BY <1>2, <1>1 DEF HandType
<1>5. HandKnows => command = pose
  BY <1>1 DEF HandKnows
<1> HIDE DEF synced, command
<1>6. hand' \in HandType /\ (hand'.at = "raised" \/ hand'.command = command)
  BY <1>1, <1>3, <1>4, NoHandFacts DEF NoHandType, HandType
<1>7. UNCHANGED <<leader, moves, bridge, wire, runtime, web>>
  BY DEF HandReads
<1> QED BY <1>1, <1>5, <1>6, <1>7, HandStays, NoMove DEF HandKnows

(* It sends that command, which is at most MaxDelta from the last.         *)
LEMMA HandSendsFacts ==
  ASSUME RobotType, TeleopType, OneBridge, HandSends
  PROVE  /\ RobotType' /\ TeleopType' /\ OneBridge'
         /\ HandKnows => HandKnows' /\ HandMoves
<1> DEFINE x == Stepped(hand.command["left"], leader, MaxStep)
           q == [hand.command EXCEPT !["left"] = x]
<1>1. hand \in HandType /\ hand.at = "sends" /\ pose \in Pose
  BY DEF HandSends, RobotType, TeleopType
<1>2. /\ hand.command["left"] \in Int /\ hand.command \in Pose
      /\ leader \in Int /\ MaxStep \in Nat
  BY <1>1, AssumedTypes DEF HandType, TeleopType, Pose, Parts, Arms
<1>3. x \in Int /\ Distance(hand.command["left"], x) <= MaxStep
  BY <1>2, SteppedFacts
<1>4. UNCHANGED <<leader, moves, bridge, wire, runtime, web>>
  BY DEF HandSends
<1>5. \/ Accepted(q) /\ hand' = [hand EXCEPT !.at = "reads", !.command = q]
      \/ Rejected(q) /\ hand' = [NoHand EXCEPT !.at = "raised"]
      \/ hand' = [hand EXCEPT !.at = "reads"] /\ UNCHANGED robotVars
  BY Zenon DEF HandSends
<1> HIDE DEF x
<1>6. /\ q \in Pose /\ q["right"] = hand.command["right"] /\ q["left"] = x
  BY <1>2, <1>3 DEF Pose, Parts, Arms
<1>7. HandKnows => hand.command = pose
  BY <1>1 DEF HandKnows
<1> HIDE DEF q
<1>8. CASE Accepted(q) /\ hand' = [hand EXCEPT !.at = "reads", !.command = q]
  <2>1. RobotType' /\ pose' = q
    BY <1>6, <1>8, AcceptedFacts
  <2>2. hand' \in HandType /\ hand'.command = q
    BY <1>1, <1>6, <1>8 DEF HandType
  <2>3. HandKnows => HandMoves
    BY <1>3, <1>6, <1>7, <2>1 DEF HandMoves
  <2> QED BY <1>4, <2>1, <2>2, <2>3, HandStays DEF HandKnows
<1>9. CASE Rejected(q) /\ hand' = [NoHand EXCEPT !.at = "raised"]
  <2>1. RobotType' /\ (pose' = pose \/ pose' = [pose EXCEPT !["left"] = x])
    BY <1>6, <1>9, RejectedFacts
  <2>2. hand' \in HandType /\ hand'.at = "raised"
    BY <1>9, NoHandFacts DEF NoHandType, HandType
  <2>3. HandKnows => HandMoves
    <3>1. CASE pose' = pose
      BY <3>1, NoMove
    <3>2. CASE pose' = [pose EXCEPT !["left"] = x]
      <4>1. pose'["right"] = pose["right"] /\ pose'["left"] = x
        BY <1>1, <3>2 DEF Pose, Parts, Arms
      <4> QED BY <1>3, <1>7, <4>1 DEF HandMoves
    <3> QED BY <2>1, <3>1, <3>2
  <2> QED BY <1>4, <2>1, <2>2, <2>3, HandStays DEF HandKnows
<1>10. CASE hand' = [hand EXCEPT !.at = "reads"] /\ UNCHANGED robotVars
  <2>1. RobotType' /\ pose' = pose
    BY <1>10, RobotStays
  <2>2. hand' \in HandType /\ hand'.command = hand.command
    BY <1>1, <1>10 DEF HandType
  <2> QED BY <1>4, <1>7, <2>1, <2>2, HandStays, NoMove DEF HandKnows
<1> QED BY <1>5, <1>8, <1>9, <1>10

-----------------------------------------------------------------------------
(* The programs that plan: if nobody else moves the robot every command    *)
(* starts where the one before it ended, and takes a bounded step.         *)

PlanFromHere(p) ==
  task[p].at \in {"moves", "gripping", "restoring"} => Chain(pose, task[p].plan)

ArmsMoveLittle == \A part \in Arms : Distance(pose[part], pose'[part]) <= MaxJoint

(* A robot that stays has moved little.                                    *)
LEMMA ArmsStay ==
  ASSUME RobotType, pose' = pose
  PROVE  ArmsMoveLittle
  BY AssumedTypes DEF RobotType, ArmsMoveLittle, Pose, Parts, Arms, Distance

(* So has one that took a bounded command, or the part of it that came     *)
(* before an error.                                                        *)
LEMMA CommandMoves ==
  ASSUME RobotType, NEW q \in Pose, Bounded(pose, q), pose' = q \/ PartOfIt(q)
  PROVE  ArmsMoveLittle
<1>1. "left" \in Parts /\ "right" \in Parts /\ pose \in Pose
  BY DEF Parts, Arms, RobotType
<1>2. CASE pose' = q
  BY <1>1, <1>2, AssumedTypes DEF Bounded, ArmsMoveLittle, Arms, Pose, Distance
<1>3. CASE PartOfIt(q)
  <2>1. pose'["left"] = pose["left"] /\ pose'["right"] = pose["right"]
    BY <1>1, <1>3 DEF PartOfIt, Bounded, Pose
  <2> QED BY <1>1, <2>1, AssumedTypes DEF ArmsMoveLittle, Arms, Pose, Distance
<1> QED BY <1>2, <1>3

(* The rest of a plan goes on from its first pose.                         *)
LEMMA ChainGoesOn ==
  ASSUME NEW q \in Pose, NEW plan \in Seq(Pose), plan # <<>>, Chain(q, plan)
  PROVE  /\ Head(plan) \in Pose /\ Bounded(q, Head(plan))
         /\ Chain(Head(plan), Tail(plan))
<1>1. /\ Head(plan) \in Pose /\ Head(plan) = plan[1] /\ Tail(plan) \in Seq(Pose)
      /\ Len(Tail(plan)) = Len(plan) - 1 /\ Len(plan) \in Nat \ {0}
      /\ \A i \in 1 .. Len(Tail(plan)) : Tail(plan)[i] = plan[i + 1]
  BY HeadTailProperties, EmptySeq
<1>2. DOMAIN plan = 1 .. Len(plan) /\ DOMAIN Tail(plan) = 1 .. Len(Tail(plan))
  BY <1>1
<1>3. Bounded(q, Head(plan))
  <2>1. 1 \in DOMAIN plan
    BY <1>1, <1>2
  <2>2. Bounded(From(q, plan, 1), plan[1])
    BY <2>1 DEF Chain
  <2> QED BY <2>2, <1>1 DEF From
<1>4. ASSUME NEW i \in DOMAIN Tail(plan)
      PROVE  Bounded(From(Head(plan), Tail(plan), i), Tail(plan)[i])
  <2>1. i \in Nat /\ i + 1 \in DOMAIN plan /\ i + 1 # 1 /\ (i + 1) - 1 = i /\ Tail(plan)[i] = plan[i + 1]
    BY <1>1, <1>2
  <2>2. Bounded(From(q, plan, i + 1), plan[i + 1])
    BY <2>1 DEF Chain
  <2>3. From(q, plan, i + 1) = plan[i]
    BY <2>1 DEF From
  <2>4. From(Head(plan), Tail(plan), i) = plan[i]
    <3>1. CASE i = 1
      BY <3>1, <1>1 DEF From
    <3>2. CASE i # 1
      <4>1. i - 1 \in 1 .. Len(Tail(plan)) /\ (i - 1) + 1 = i
        BY <1>1, <1>2, <2>1, <3>2
      <4> QED BY <4>1, <3>2, <1>1 DEF From
    <3> QED BY <3>1, <3>2
  <2> QED BY <2>1, <2>2, <2>3, <2>4
<1> QED BY <1>1, <1>3, <1>4 DEF Chain

(* The step that sends a command of the plan.                              *)
LEMMA SendingKeepsOn ==
  ASSUME RobotType, TasksType, NEW p \in Movers, SendPlanned(p), PlanFromHere(p)
  PROVE  ArmsMoveLittle /\ PlanFromHere(p)'
<1>1. task[p].plan \in Seq(Pose) /\ pose \in Pose
  BY DEF TasksType, TaskType, RobotType
<1>2. TaskAt(p, "moves") /\ task[p].plan # <<>>
  BY SendPlannedFacts
<1>3. Chain(pose, task[p].plan)
  BY <1>2 DEF PlanFromHere, TaskAt
<1> DEFINE q == Head(task[p].plan)
<1>4. q \in Pose /\ Bounded(pose, q) /\ Chain(q, Tail(task[p].plan))
  BY <1>1, <1>2, <1>3, ChainGoesOn
<1>5. \/ pose' = q /\ task'[p].plan = Tail(task[p].plan)
      \/ Fails(p) /\ PartOfIt(q)
  BY SendPlannedFacts
<1> HIDE DEF q
<1>6. ArmsMoveLittle
  BY <1>4, <1>5, CommandMoves
<1>7. PlanFromHere(p)'
  BY <1>4, <1>5 DEF PlanFromHere, Fails
<1> QED BY <1>6, <1>7

-----------------------------------------------------------------------------
(* A whole step of yam_exec_loop.py.                                       *)

Pending ==
  /\ TaskAt("exec", "gripping") => task["exec"].plan # <<>>
  /\ task["servo"].at \in ServoPlaces => task["servo"].todo # <<>>

MoversOK == RobotType /\ TasksType /\ ExecType /\ ObservationsAreTrue /\ Pending

(* A step of the probe or the pixel move leaves what the exec loop and the *)
(* servo still have to do.                                                 *)
LEMMA PendingElsewhere ==
  ASSUME Pending, NEW p \in Movers, Only(p), p # "exec", p # "servo"
  PROVE  Pending'
<1>1. task'["exec"] = task["exec"] /\ task'["servo"] = task["servo"]
  BY DEF Only, Movers
<1> QED BY <1>1 DEF Pending, TaskAt

(* A step of the exec loop leaves what the servo has to do.                *)
LEMMA ExecPending ==
  ASSUME Pending, Only("exec"), task'["exec"].at = "gripping" => task'["exec"].plan # <<>>
  PROVE  Pending'
<1>1. task'["servo"] = task["servo"]
  BY DEF Only, Movers
<1> QED BY <1>1 DEF Pending, TaskAt

ExecStepOK ==
  /\ MoversOK' /\ Only("exec") /\ ~TaskAt("exec", "done")
  /\ \/ transcript' = transcript
     \/ /\ transcript' = Append(transcript, Record)
        /\ StopsAfter(Record) => task'["exec"].at = "done"
  /\ PlanFromHere("exec") => ArmsMoveLittle /\ PlanFromHere("exec")'

(* A step that leaves the robot where it is.                               *)
LEMMA ExecQuiet ==
  ASSUME MoversOK, Only("exec"), ExecType', ObservationsAreTrue', pose' = pose,
         ~TaskAt("exec", "done"),
         \/ transcript' = transcript
         \/ /\ transcript' = Append(transcript, Record)
            /\ StopsAfter(Record) => task'["exec"].at = "done",
         task'["exec"].at = "gripping" => task'["exec"].plan # <<>>,
         task'["exec"].at \in {"moves", "gripping", "restoring"} => Chain(pose, task'["exec"].plan)
  PROVE  ExecStepOK
<1>1. Pending'
  BY ExecPending DEF MoversOK
<1>2. ArmsMoveLittle /\ PlanFromHere("exec")'
  BY ArmsStay DEF MoversOK, PlanFromHere
<1> QED BY <1>1, <1>2 DEF ExecStepOK, MoversOK, Only

(* The steps of the exec loop, all together.                               *)
LEMMA ExecStepFacts ==
  ASSUME MoversOK, ExecStep
  PROVE  ExecStepOK
<1>a. RobotType /\ TasksType /\ ExecType /\ ObservationsAreTrue /\ Pending
  BY DEF MoversOK
<1>0. "exec" \in Movers
  BY DEF Movers
<1>1. CASE ExecObserves
  BY <1>a, <1>1, ExecObservesFacts, ExecQuiet DEF Fails, TaskAt
<1>2. CASE ExecDecides
  BY <1>a, <1>2, ExecDecidesFacts, ExecQuiet DEF Fails, TaskAt
<1>3. CASE ExecGrips
  <2>1. UNCHANGED execVars
    BY <1>3 DEF ExecGrips
  <2>2. ExecType' /\ ObservationsAreTrue' /\ transcript' = transcript
    BY <1>a, <2>1 DEF execVars, ExecType, ObservationsAreTrue
  <2>3. /\ TaskAt("exec", "grips") /\ Only("exec") /\ pose' = pose
        /\ \/ Fails("exec")
           \/ /\ task'["exec"].at = "gripping" /\ task'["exec"].plan # <<>>
              /\ Chain(pose, task'["exec"].plan)
    BY <1>a, <1>3, ExecGripsFacts
  <2> QED BY <2>2, <2>3, ExecQuiet DEF Fails, TaskAt
<1>4. CASE ExecGripped
  <2>1. UNCHANGED execVars /\ TaskAt("exec", "gripping")
    BY <1>4 DEF ExecGripped
  <2>2. ExecType' /\ ObservationsAreTrue' /\ transcript' = transcript
    BY <1>a, <2>1 DEF execVars, ExecType, ObservationsAreTrue
  <2>3. task["exec"].plan # <<>> /\ task["exec"].plan \in Seq(Pose)
    BY <1>a, <2>1, <1>0 DEF Pending, TasksType, TaskType
  <2> DEFINE q == task["exec"].plan[1]
  <2>4. /\ Only("exec") /\ q \in Pose
        /\ \/ pose' = q /\ task'["exec"].at = "records"
           \/ PartOfIt(q) /\ Fails("exec")
    BY <1>a, <1>4, <2>3, ExecGrippedFacts
  <2>5. PlanFromHere("exec") => Bounded(pose, q)
    <3>1. q = Head(task["exec"].plan)
      BY <2>3
    <3>2. PlanFromHere("exec") => Chain(pose, task["exec"].plan)
      BY <2>1 DEF PlanFromHere, TaskAt
    <3> QED BY <1>a, <3>1, <3>2, <2>3, ChainGoesOn DEF RobotType
  <2> HIDE DEF q
  <2>6. PlanFromHere("exec") => ArmsMoveLittle
    BY <1>a, <2>4, <2>5, CommandMoves
  <2>7. PlanFromHere("exec")'
    BY <2>4 DEF PlanFromHere, Fails
  <2>8. Pending'
    BY <1>a, <2>4, ExecPending DEF Fails
  <2> QED BY <2>1, <2>2, <2>4, <2>6, <2>7, <2>8 DEF Only, TaskAt, ExecStepOK, MoversOK
<1>5. CASE ExecMoved
  BY <1>a, <1>5, ExecMovedFacts, ExecQuiet DEF Fails, TaskAt
<1>6. CASE ExecChecks
  BY <1>a, <1>6, ExecChecksFacts, ExecQuiet DEF Fails, TaskAt
<1>7. CASE ExecRecords
  BY <1>a, <1>7, ExecRecordsFacts, ExecQuiet DEF Fails, TaskAt
<1>8. ASSUME UNCHANGED execVars
      PROVE  ExecType' /\ ObservationsAreTrue' /\ transcript' = transcript
  BY <1>a, <1>8 DEF execVars, ExecType, ObservationsAreTrue
<1>9. CASE PlanCartesian("exec") /\ UNCHANGED execVars
  <2>1. /\ TaskAt("exec", "plans") /\ Only("exec") /\ pose' = pose
        /\ Fails("exec") \/ (task'["exec"].at = "moves" /\ Chain(pose, task'["exec"].plan))
    BY <1>a, <1>0, <1>9, PlanCartesianFacts
  <2> QED BY <1>8, <1>9, <2>1, ExecQuiet DEF Fails, TaskAt
<1>10. CASE PlanWrist("exec") /\ UNCHANGED execVars
  <2>1. /\ TaskAt("exec", "aims") /\ Only("exec") /\ pose' = pose
        /\ Fails("exec") \/ (task'["exec"].at = "moves" /\ Chain(pose, task'["exec"].plan))
    BY <1>a, <1>0, <1>10, PlanWristFacts
  <2> QED BY <1>8, <1>10, <2>1, ExecQuiet DEF Fails, TaskAt
<1>11. CASE SendPlanned("exec") /\ UNCHANGED execVars
  <2>1. /\ TaskAt("exec", "moves") /\ Only("exec")
        /\ Fails("exec") \/ task'["exec"].at = "moves"
    BY <1>a, <1>0, <1>11, SendPlannedFacts
  <2>2. PlanFromHere("exec") => ArmsMoveLittle /\ PlanFromHere("exec")'
    BY <1>a, <1>0, <1>11, SendingKeepsOn
  <2>3. Pending'
    BY <1>a, <2>1, ExecPending DEF Fails
  <2> QED BY <1>8, <1>11, <2>1, <2>2, <2>3 DEF TaskAt, Only, ExecStepOK, MoversOK
<1> QED BY <1>1, <1>2, <1>3, <1>4, <1>5, <1>6, <1>7, <1>9, <1>10, <1>11 DEF ExecStep

-----------------------------------------------------------------------------
(* Steps of the other three programs that plan: types, and what is pending.*)

(* What a step of another program leaves alone.                            *)
LEMMA NotExec ==
  ASSUME MoversOK, NEW p \in Movers, Only(p), p # "exec", UNCHANGED execVars,
         p = "servo" => (task'["servo"].at \in ServoPlaces => task'["servo"].todo # <<>>)
  PROVE  MoversOK' /\ transcript' = transcript /\ task'["exec"] = task["exec"]
<1>1. RobotType' /\ TasksType' /\ task'["exec"] = task["exec"]
  BY DEF Only, Movers
<1>2. ExecType' /\ ObservationsAreTrue' /\ transcript' = transcript
  BY DEF MoversOK, execVars, ExecType, ObservationsAreTrue
<1>3. Pending'
  <2>1. CASE p = "servo"
    BY <1>1, <2>1 DEF MoversOK, Pending, TaskAt
  <2>2. CASE p # "servo"
    BY <2>2, PendingElsewhere DEF MoversOK
  <2> QED BY <2>1, <2>2
<1> QED BY <1>1, <1>2, <1>3 DEF MoversOK

(* A step of the probe is one of its own record.                           *)
LEMMA ProbeStepTypes ==
  ASSUME MoversOK, ProbeStep
  PROVE  Only("probe")
<1>1. "probe" \in Movers /\ RobotType /\ TasksType
  BY DEF Movers, MoversOK
<1>2. CASE ProbeBegins
  BY <1>1, <1>2, ProbeBeginsFacts
<1>3. CASE ProbeLooks
  BY <1>1, <1>3, ProbeLooksFacts
<1>4. CASE PlanCartesian("probe")
  BY <1>1, <1>4, PlanCartesianFacts
<1>5. CASE ProbeMoved
  BY <1>1, <1>5, ProbeMovedFacts
<1>6. CASE RestoreJointPos
  BY <1>1, <1>6, RestoreJointPosFacts
<1>7. CASE RestoreStep
  BY <1>1, <1>7, RestoreStepFacts
<1>8. CASE SendPlanned("probe")
  BY <1>1, <1>8, SendPlannedFacts
<1> QED BY <1>2, <1>3, <1>4, <1>5, <1>6, <1>7, <1>8 DEF ProbeStep

(* The steps of the pixel move, all together.                              *)
LEMMA PixelStepFacts ==
  ASSUME MoversOK, PixelStep
  PROVE  Only("pixel") /\ (PlanFromHere("pixel") => ArmsMoveLittle /\ PlanFromHere("pixel")')
<1>1. "pixel" \in Movers /\ RobotType /\ TasksType
  BY DEF Movers, MoversOK
<1>2. CASE PixelPlans
  <2>1. /\ Only("pixel") /\ pose' = pose
        /\ Fails("pixel") \/ (task'["pixel"].at = "moves" /\ Chain(pose, task'["pixel"].plan))
    BY <1>1, <1>2, PixelPlansFacts
  <2> QED BY <1>1, <2>1, ArmsStay DEF Fails, PlanFromHere
<1>3. CASE PixelMoved
  <2>1. Only("pixel") /\ pose' = pose /\ task'["pixel"].at = "done"
    BY <1>1, <1>3, PixelMovedFacts
  <2> QED BY <1>1, <2>1, ArmsStay DEF PlanFromHere
<1>4. CASE SendPlanned("pixel")
  BY <1>1, <1>4, SendPlannedFacts, SendingKeepsOn
<1> QED BY <1>2, <1>3, <1>4 DEF PixelStep

(* The servo knows where it left the arm.                                  *)
ServoKnows ==
  LET t == task["servo"]
  IN /\ t.at \in {"observes", "probes", "updates"} => pose = t.base
     /\ t.at \in {"probed", "returns"} => pose = [t.base EXCEPT !["right"] = @ + ProbeDelta]

(* What it may move the arm by.                                            *)
ServoReach ==
  IF task["servo"].at \in {"probes", "returns"} THEN Distance(ProbeDelta, 0) ELSE MaxJoint

ServoMoves == \A part \in Arms : Distance(pose[part], pose'[part]) <= ServoReach

Near(q, r, bound) == r["left"] = q["left"] /\ Distance(q["right"], r["right"]) <= bound

LEMMA ServoReachIsNat == ServoReach \in Nat
  BY AssumedTypes DEF ServoReach, Distance

(* A command that changes the right arm by no more than a bound,           *)
LEMMA ToArmNear ==
  ASSUME NEW q \in Pose, NEW x \in Int, NEW bound \in Nat, Distance(q["right"], x) <= bound
  PROVE  /\ [q EXCEPT !["right"] = x] \in Pose
         /\ Near(q, [q EXCEPT !["right"] = x], bound)
<1>1. "left" \in Parts /\ "right" \in Parts
  BY DEF Parts, Arms
<1> QED BY <1>1 DEF Pose, Near

(* or the part of it that came before an error, moves the arms by no more. *)
LEMMA NearCommandMoves ==
  ASSUME RobotType, NEW q \in Pose, NEW bound \in Nat, Near(pose, q, bound),
         pose' = q \/ PartOfIt(q)
  PROVE  \A part \in Arms : Distance(pose[part], pose'[part]) <= bound
<1>1. "left" \in Parts /\ "right" \in Parts /\ pose \in Pose
  BY DEF Parts, Arms, RobotType
<1>2. CASE pose' = q
  BY <1>1, <1>2 DEF Near, Arms, Pose, Distance
<1>3. CASE PartOfIt(q)
  <2>1. pose'["left"] = pose["left"] /\ pose'["right"] = pose["right"]
    BY <1>1, <1>3 DEF PartOfIt, Near, Pose
  <2> QED BY <1>1, <2>1 DEF Arms, Pose, Distance
<1> QED BY <1>2, <1>3

ServoStepOK ==
  /\ Only("servo")
  /\ task'["servo"].at \in ServoPlaces => task'["servo"].todo # <<>>
  /\ ServoKnows => ServoKnows' /\ ServoMoves

(* A step in which the servo does not move the arm.                        *)
LEMMA ServoQuiet ==
  ASSUME MoversOK, Only("servo"), pose' = pose,
         task'["servo"].at \in ServoPlaces => task'["servo"].todo # <<>>,
         ServoKnows => ServoKnows'
  PROVE  ServoStepOK
<1>1. ServoMoves
  BY ServoReachIsNat DEF MoversOK, RobotType, Pose, Parts, ServoMoves, Arms, Distance
<1> QED BY <1>1 DEF ServoStepOK

(* A command that takes a step from where the servo is.                    *)
LEMMA ServoCommands ==
  ASSUME MoversOK, NEW at \in ServoPlaces, NEW q \in Pose, NEW next \in Places,
         ServoSends(at, q, next),
         ServoKnows => Near(pose, q, ServoReach),
         (ServoKnows /\ pose' = q /\ task'["servo"].at = next
            /\ task'["servo"].base = task["servo"].base) => ServoKnows'
  PROVE  ServoStepOK
<1>1. RobotType /\ TasksType /\ Pending
  BY DEF MoversOK
<1>2. /\ TaskAt("servo", at) /\ Only("servo")
      /\ \/ pose' = q /\ task'["servo"].at = next /\ KeepsBase("servo")
         \/ PartOfIt(q) /\ Fails("servo")
  BY <1>1, ServoSendsFacts
<1>3. task["servo"].todo # <<>>
  BY <1>1, <1>2 DEF Pending, TaskAt
<1>4. task'["servo"].at \in ServoPlaces => task'["servo"].todo # <<>>
  BY <1>2, <1>3 DEF KeepsBase, Fails, ServoPlaces
<1>5. ServoKnows => ServoMoves
  BY <1>1, <1>2, ServoReachIsNat, NearCommandMoves DEF ServoMoves
<1>6. Fails("servo") => ServoKnows'
  BY DEF Fails, ServoKnows
<1>7. ServoKnows => ServoKnows'
  BY <1>2, <1>6 DEF KeepsBase
<1> QED BY <1>2, <1>4, <1>5, <1>7 DEF ServoStepOK

(* The steps of the servo, all together.                                   *)
LEMMA ServoStepFacts ==
  ASSUME MoversOK, ServoStep
  PROVE  ServoStepOK
<1> DEFINE t == task["servo"]
           b == t.base
           out == [b EXCEPT !["right"] = @ + ProbeDelta]
           delta == Distance(ProbeDelta, 0)
<1>1. /\ RobotType /\ TasksType /\ "servo" \in Movers /\ b \in Pose
      /\ t.at \in ServoPlaces => t.todo # <<>>
  BY DEF MoversOK, Movers, TasksType, TaskType, Pending
<1>2. b["right"] \in Int /\ MaxJoint \in Nat /\ MaxJoint >= 1 /\ ProbeDelta \in Int
  BY <1>1, AssumedTypes DEF Pose, Parts, Arms
<1>3. out \in Pose /\ Near(b, out, delta) /\ Near(out, b, delta)
  <2> DEFINE x == b["right"] + ProbeDelta
  <2>1. /\ x \in Int /\ delta \in Nat
        /\ Distance(b["right"], x) <= delta /\ Distance(x, b["right"]) <= delta
    BY <1>2 DEF Distance
  <2> HIDE DEF x
  <2>2. out = [b EXCEPT !["right"] = x]
    BY DEF x
  <2> HIDE DEF delta
  <2>3. out \in Pose /\ Near(b, out, delta)
    BY <1>1, <2>1, <2>2, ToArmNear
  <2>4. out["right"] = x /\ out["left"] = b["left"]
    BY <1>1, <2>2 DEF Pose, Parts, Arms
  <2> QED BY <2>1, <2>3, <2>4 DEF Near
<1> HIDE DEF out
<1>4. CASE ServoBegins
  <2>1. /\ Only("servo") /\ pose' = pose
        /\ \/ Fails("servo")
           \/ /\ task'["servo"].at = "observes" /\ task'["servo"].base = pose
              /\ task'["servo"].todo # <<>>
    BY <1>1, <1>4, ServoBeginsFacts
  <2> QED BY <2>1, ServoQuiet DEF Fails, ServoKnows, ServoPlaces
<1>5. CASE ServoObserves
  <2>1. t.at = "observes" /\ UNCHANGED robotVars /\ (Raises("servo") \/ TaskGoes("servo", "probes"))
    BY <1>5 DEF ServoObserves, TaskAt
  <2>2. /\ Only("servo") /\ pose' = pose
        /\ Fails("servo") \/ (task'["servo"].at = "probes" /\ KeepsBase("servo"))
    BY <1>1, <2>1, ServoLooksFacts, "probes" \in Places DEF Places
  <2>3. t.todo # <<>>
    BY <1>1, <2>1 DEF ServoPlaces
  <2> QED BY <2>1, <2>2, <2>3, ServoQuiet DEF Fails, ServoKnows, ServoPlaces, KeepsBase
<1>6. CASE ServoProbes
  <2>1. ServoSends("probes", out, "probed")
    BY <1>6 DEF ServoProbes, out
  <2>2. TaskAt("servo", "probes")
    BY <2>1 DEF ServoSends
  <2>3. ServoKnows => Near(pose, out, ServoReach)
    BY <1>3, <2>2 DEF ServoKnows, ServoReach, TaskAt
  <2>4. (ServoKnows /\ pose' = out /\ task'["servo"].at = "probed" /\ task'["servo"].base = b)
          => ServoKnows'
    BY DEF ServoKnows, out
  <2> QED BY <1>3, <2>1, <2>3, <2>4, ServoCommands DEF ServoPlaces, Places
<1>7. CASE ServoProbed
  <2>1. t.at = "probed" /\ UNCHANGED robotVars /\ (Raises("servo") \/ TaskGoes("servo", "returns"))
    BY <1>7 DEF ServoProbed, TaskAt
  <2>2. /\ Only("servo") /\ pose' = pose
        /\ Fails("servo") \/ (task'["servo"].at = "returns" /\ KeepsBase("servo"))
    BY <1>1, <2>1, ServoLooksFacts, "returns" \in Places DEF Places
  <2>3. t.todo # <<>>
    BY <1>1, <2>1 DEF ServoPlaces
  <2> QED BY <2>1, <2>2, <2>3, ServoQuiet DEF Fails, ServoKnows, ServoPlaces, KeepsBase
<1>8. CASE ServoReturns
  <2>1. ServoSends("returns", b, "updates")
    BY <1>8 DEF ServoReturns
  <2>2. TaskAt("servo", "returns")
    BY <2>1 DEF ServoSends
  <2>3. ServoKnows => Near(pose, b, ServoReach)
    BY <1>3, <2>2 DEF ServoKnows, ServoReach, TaskAt, out
  <2>4. (ServoKnows /\ pose' = b /\ task'["servo"].at = "updates" /\ task'["servo"].base = b)
          => ServoKnows'
    BY DEF ServoKnows
  <2> QED BY <1>1, <2>1, <2>3, <2>4, ServoCommands DEF ServoPlaces, Places
<1>9. CASE ServoUpdates
  <2>1. PICK d \in Deltas :
          ServoSends("updates", [b EXCEPT !["right"] = @ + Clip(d, MaxJoint)], "reads")
    BY <1>9 DEF ServoUpdates
  <2> DEFINE x == b["right"] + Clip(d, MaxJoint)
             q == [b EXCEPT !["right"] = x]
  <2>2. x \in Int /\ Distance(b["right"], x) <= MaxJoint
    <3>1. d \in Int
      BY AssumedTypes
    <3> QED BY <3>1, <1>2 DEF Clip, Distance
  <2>3. ServoSends("updates", q, "reads")
    BY <2>1
  <2> HIDE DEF x
  <2>4. q \in Pose /\ Near(b, q, MaxJoint)
    BY <1>1, <1>2, <2>2, ToArmNear
  <2> HIDE DEF q
  <2>5. TaskAt("servo", "updates")
    BY <2>3 DEF ServoSends
  <2>6. ServoKnows => Near(pose, q, ServoReach)
    BY <2>4, <2>5 DEF ServoKnows, ServoReach, TaskAt
  <2>7. (ServoKnows /\ pose' = q /\ task'["servo"].at = "reads" /\ task'["servo"].base = b)
          => ServoKnows'
    BY DEF ServoKnows
  <2> QED BY <2>3, <2>4, <2>6, <2>7, ServoCommands DEF ServoPlaces, Places
<1>10. CASE ServoReads
  <2>1. t.at = "reads"
    BY <1>10 DEF ServoReads, TaskAt
  <2>2. t.todo # <<>>
    BY <1>1, <2>1 DEF ServoPlaces
  <2>3. /\ Only("servo") /\ pose' = pose
        /\ \/ Fails("servo")
           \/ task'["servo"].at = "done"
           \/ /\ task'["servo"].at = "observes" /\ task'["servo"].base = pose
              /\ task'["servo"].todo # <<>>
    BY <1>1, <1>10, <2>2, ServoReadsFacts
  <2> QED BY <2>3, ServoQuiet DEF Fails, ServoKnows, ServoPlaces
<1> QED BY <1>4, <1>5, <1>6, <1>7, <1>8, <1>9, <1>10 DEF ServoStep

-----------------------------------------------------------------------------
(* The probe goes back to where it found the arm.                          *)

EndsAt(plan, q) == plan # <<>> => plan[Len(plan)] = q

ProbeGoesBack ==
  LET t == task["probe"]
  IN /\ t.at = "restoring" => EndsAt(t.plan, t.base) /\ (t.plan = <<>> => pose = t.base)
     /\ t.at = "done" => pose = t.base

(* The end of a plan is the end of its rest.                               *)
LEMMA EndOfTail ==
  ASSUME NEW plan \in Seq(Pose), plan # <<>>, NEW q, EndsAt(plan, q)
  PROVE  EndsAt(Tail(plan), q) /\ (Tail(plan) = <<>> => Head(plan) = q)
<1>1. /\ Head(plan) = plan[1] /\ Tail(plan) \in Seq(Pose)
      /\ Len(Tail(plan)) = Len(plan) - 1 /\ Len(plan) \in Nat \ {0}
      /\ \A i \in 1 .. Len(Tail(plan)) : Tail(plan)[i] = plan[i + 1]
  BY HeadTailProperties, EmptySeq
<1>2. plan[Len(plan)] = q
  BY DEF EndsAt
<1>3. Tail(plan) = <<>> => Head(plan) = q
  <2>1. Tail(plan) = <<>> => Len(plan) = 1
    <3>1. Tail(plan) = <<>> => Len(Tail(plan)) = 0
      BY <1>1, EmptySeq
    <3> QED BY <1>1, <3>1
  <2> QED BY <2>1, <1>1, <1>2
<1>4. Tail(plan) # <<>> => Tail(plan)[Len(Tail(plan))] = q
  <2>1. Tail(plan) # <<>> => Len(Tail(plan)) # 0
    BY <1>1, EmptySeq
  <2>2. Len(Tail(plan)) # 0 => Len(Tail(plan)) \in 1 .. Len(Tail(plan)) /\ Len(Tail(plan)) + 1 = Len(plan)
    BY <1>1
  <2> QED BY <2>1, <2>2, <1>1, <1>2
<1> QED BY <1>3, <1>4 DEF EndsAt

(* On the way back the plan goes on ending at the base.                    *)
LEMMA ProbeBackStep ==
  ASSUME MoversOK, ProbeStep, ProbeGoesBack
  PROVE  ProbeGoesBack'
<1> DEFINE t == task["probe"]
           u == task'["probe"]
<1>1. /\ "probe" \in Movers /\ RobotType /\ TasksType /\ pose \in Pose
      /\ t.base \in Pose /\ t.plan \in Seq(Pose)
  BY DEF Movers, MoversOK, RobotType, TasksType, TaskType
<1>2. u.at \notin {"restoring", "done"} => ProbeGoesBack'
  BY DEF ProbeGoesBack
<1>3. CASE ProbeBegins
  BY <1>1, <1>2, <1>3, ProbeBeginsFacts
<1>4. CASE ProbeLooks
  <2>1. u.at \in {"raised", "restores", "plans"}
    BY <1>1, <1>4, ProbeLooksFacts DEF Fails
  <2> QED BY <1>2, <2>1
<1>5. CASE PlanCartesian("probe")
  <2>1. u.at \in {"raised", "moves"}
    BY <1>1, <1>5, PlanCartesianFacts DEF Fails
  <2> QED BY <1>2, <2>1
<1>6. CASE ProbeMoved
  <2>1. u.at = "looks"
    BY <1>1, <1>6, ProbeMovedFacts
  <2> QED BY <1>2, <2>1
<1>7. CASE RestoreJointPos
  <2>1. \/ Fails("probe")
        \/ /\ u.at = "restoring" /\ u.base = t.base /\ u.plan = RestorePlan(pose, t.base)
    BY <1>1, <1>7, RestoreJointPosFacts DEF KeepsBase
  <2>2. EndsAt(RestorePlan(pose, t.base), t.base) /\ RestorePlan(pose, t.base) # <<>>
    BY <1>1, RestorePlanFacts DEF EndsAt
  <2> QED BY <1>2, <2>1, <2>2 DEF Fails, ProbeGoesBack
<1>8. CASE RestoreStep
  <2>1. /\ t.at = "restoring"
        /\ \/ Fails("probe")
           \/ t.plan = <<>> /\ pose' = pose /\ u.at = "done" /\ u.base = t.base
           \/ /\ t.plan # <<>> /\ pose' = Head(t.plan)
              /\ u.at = "restoring" /\ u.plan = Tail(t.plan) /\ u.base = t.base
    BY <1>1, <1>8, RestoreStepFacts DEF KeepsBase
  <2>2. EndsAt(t.plan, t.base) /\ (t.plan = <<>> => pose = t.base)
    BY <2>1 DEF ProbeGoesBack
  <2>3. t.plan # <<>> =>
          EndsAt(Tail(t.plan), t.base) /\ (Tail(t.plan) = <<>> => Head(t.plan) = t.base)
    BY <1>1, <2>2, EndOfTail
  <2>4. CASE Fails("probe")
    BY <1>2, <2>4 DEF Fails
  <2>5. CASE t.plan = <<>> /\ pose' = pose /\ u.at = "done" /\ u.base = t.base
    BY <2>2, <2>5 DEF ProbeGoesBack
  <2>6. CASE /\ t.plan # <<>> /\ pose' = Head(t.plan)
             /\ u.at = "restoring" /\ u.plan = Tail(t.plan) /\ u.base = t.base
    BY <2>3, <2>6 DEF ProbeGoesBack
  <2> QED BY <2>1, <2>4, <2>5, <2>6
<1>9. CASE SendPlanned("probe")
  <2>1. u.at \in {"raised", "moves"}
    BY <1>1, <1>9, SendPlannedFacts DEF Fails
  <2> QED BY <1>2, <2>1
<1> QED BY <1>3, <1>4, <1>5, <1>6, <1>7, <1>8, <1>9 DEF ProbeStep

-----------------------------------------------------------------------------
(* The probe stays so near that the way back is slow: with at most `most'  *)
(* segments for each of its moves.                                         *)

SlowEnough(most) ==
  /\ most * Len(Probe) <= RestoreSteps
  /\ \A i \in DOMAIN Probe : Segments(Probe[i]) <= most

(* What the moves that were begun may have taken in segments.              *)
Begun(most, t) == most * (Len(Probe) - Len(t.todo))

ProbeStaysNear(most) ==
  LET t == task["probe"]
  IN /\ t.at \in {"looks", "plans", "moves"} =>
          Len(t.todo) <= Len(Probe) /\ \A i \in DOMAIN t.todo : Segments(t.todo[i]) <= most
     /\ t.at = "looks" /\ t.todo # Probe => Within(t.base, pose, Begun(most, t))
     /\ t.at = "plans" =>
          /\ Within(t.base, pose, Begun(most, t) - most) /\ Segments(t.goes) <= most
          /\ t.todo # Probe
     /\ t.at = "moves" =>
          Within(t.base, pose, Begun(most, t) - Len(t.plan)) /\ t.todo # Probe
     /\ t.at = "restores" => Within(t.base, pose, RestoreSteps)
     /\ PlanFromHere("probe")

(* Being within k moves of a pose: it holds of more moves,                 *)
LEMMA WithinMore ==
  ASSUME NEW q \in Pose, NEW r \in Pose, NEW k \in Int, NEW l \in Int, k <= l, Within(q, r, k)
  PROVE  Within(q, r, l)
<1>1. MaxJoint * k <= MaxJoint * l
  BY AssumedTypes, TimesIsMonotonic
<1>2. MaxJoint * k \in Int /\ MaxJoint * l \in Int /\ Distance(q["right"], r["right"]) \in Int
  BY AssumedTypes DEF Pose, Parts, Arms, Distance
<1> QED BY <1>1, <1>2 DEF Within

(* of one more after a bounded command,                                    *)
LEMMA WithinNext ==
  ASSUME NEW q \in Pose, NEW r \in Pose, NEW s \in Pose, NEW k \in Int,
         Within(q, r, k), Bounded(r, s)
  PROVE  Within(q, s, k + 1)
<1>1. MaxJoint * (k + 1) = MaxJoint * k + MaxJoint /\ MaxJoint * k \in Int /\ MaxJoint \in Nat
  BY AssumedTypes
<1>2. q["right"] \in Int /\ r["right"] \in Int /\ s["right"] \in Int
  BY DEF Pose, Parts, Arms
<1> DEFINE d == MaxJoint * k
<1>3. /\ Distance(q["right"], r["right"]) <= d /\ Distance(r["right"], s["right"]) <= MaxJoint
      /\ s["left"] = q["left"] /\ d \in Int
  BY <1>1 DEF Within, Bounded
<1> HIDE DEF d
<1>4. Distance(q["right"], s["right"]) <= d + MaxJoint
  BY <1>1, <1>2, <1>3 DEF Distance
<1> QED BY <1>1, <1>3, <1>4 DEF Within, d

(* and of no move at all.                                                  *)
LEMMA WithinHere ==
  ASSUME NEW q \in Pose, NEW k \in Nat
  PROVE  Within(q, q, k)
<1>1. MaxJoint * k \in Nat /\ Distance(q["right"], q["right"]) = 0
  BY AssumedTypes DEF Pose, Parts, Arms, Distance
<1> QED BY <1>1 DEF Within

(* The probe is never further from its base than the moves it made and the *)
(* one it makes come to, so the steps of its way back are short.           *)
LEMMA ProbeNearStep ==
  ASSUME MoversOK, ProbeStep, NEW most \in Nat, SlowEnough(most), ProbeStaysNear(most)
  PROVE  ProbeStaysNear(most)' /\ ArmsMoveLittle
<1> DEFINE t == task["probe"]
           u == task'["probe"]
<1>1. /\ "probe" \in Movers /\ RobotType /\ TasksType /\ pose \in Pose
      /\ t.base \in Pose /\ t.plan \in Seq(Pose) /\ t.todo \in Seq(Int) /\ t.goes \in Int
      /\ t \in TaskType /\ Probe \in Seq(Int) /\ RestoreSteps \in Nat
  BY AssumedTypes DEF Movers, MoversOK, RobotType, TasksType, TaskType
<1>2. u.at \in {"raised", "done"} => ProbeStaysNear(most)'
  BY DEF ProbeStaysNear, PlanFromHere
<1>3. CASE ProbeBegins
  <2>1. pose' = pose /\ u.at = "looks" /\ u.todo = Probe
    BY <1>1, <1>3, ProbeBeginsFacts
  <2>2. ProbeStaysNear(most)'
    BY <1>1, <2>1 DEF ProbeStaysNear, PlanFromHere, SlowEnough
  <2> QED BY <1>1, <2>1, <2>2, ArmsStay
<1>4. CASE ProbeLooks
  <2> DEFINE first == t.todo = Probe
             begun == Begun(most, t)
  <2>1. /\ t.at = "looks" /\ pose' = pose
        /\ \/ Fails("probe")
           \/ /\ u.base = IF first THEN pose ELSE t.base
              /\ \/ t.todo = <<>> /\ u.at = "restores" /\ u.todo = t.todo
                 \/ /\ t.todo # <<>> /\ u.at = "plans"
                    /\ u.goes = Head(t.todo) /\ u.todo = Tail(t.todo)
    BY <1>1, <1>4, ProbeLooksFacts
  <2>2. /\ Len(t.todo) \in Nat /\ Len(Probe) \in Nat /\ Len(t.todo) <= Len(Probe)
        /\ \A i \in DOMAIN t.todo : Segments(t.todo[i]) <= most
    BY <1>1, <2>1 DEF ProbeStaysNear
  <2>3. begun \in Nat
    <3>1. Len(Probe) - Len(t.todo) \in Nat
      BY <2>2
    <3> QED BY <3>1 DEF Begun
  <2>4. ~Fails("probe") => Within(u.base, pose, begun)
    <3>1. CASE first
      BY <1>1, <2>1, <2>3, <3>1, WithinHere
    <3>2. CASE ~first
      BY <2>1, <3>2 DEF ProbeStaysNear
    <3> QED BY <3>1, <3>2
  <2>5. ~Fails("probe") => u.base \in Pose
    BY <1>1, <2>1
  <2>6. CASE Fails("probe")
    BY <1>1, <1>2, <2>1, <2>6, ArmsStay DEF Fails
  <2>7. CASE ~Fails("probe") /\ t.todo = <<>> /\ u.at = "restores"
    <3>1. begun <= RestoreSteps
      <4>1. Len(t.todo) = 0
        BY <2>7
      <4> QED BY <4>1, <2>2 DEF Begun, SlowEnough
    <3>2. Within(u.base, pose, RestoreSteps)
      BY <1>1, <2>3, <2>4, <2>5, <2>7, <3>1, WithinMore
    <3>3. ProbeStaysNear(most)'
      BY <2>1, <2>7, <3>2 DEF ProbeStaysNear, PlanFromHere
    <3> QED BY <1>1, <2>1, <3>3, ArmsStay
  <2>8. CASE ~Fails("probe") /\ t.todo # <<>> /\ u.at = "plans"
    <3>1. u.goes = Head(t.todo) /\ u.todo = Tail(t.todo)
      BY <2>1, <2>8
    <3>2. /\ Head(t.todo) = t.todo[1] /\ Tail(t.todo) \in Seq(Int)
          /\ Len(Tail(t.todo)) = Len(t.todo) - 1 /\ Len(t.todo) \in Nat \ {0}
          /\ \A i \in 1 .. Len(Tail(t.todo)) : Tail(t.todo)[i] = t.todo[i + 1]
      BY <1>1, <2>8, HeadTailProperties, EmptySeq
    <3>3. 1 \in DOMAIN t.todo /\ \A i \in DOMAIN Tail(t.todo) : i + 1 \in DOMAIN t.todo
      BY <1>1, <3>2
    <3>4. Segments(u.goes) <= most /\ \A i \in DOMAIN u.todo : Segments(u.todo[i]) <= most
      BY <2>2, <3>1, <3>2, <3>3
    <3>5. Len(u.todo) <= Len(Probe) /\ u.todo # Probe
      BY <2>2, <3>1, <3>2
    <3>6. Begun(most, u) - most = begun
      <4> DEFINE k == Len(Probe) - Len(t.todo)
      <4>1. k \in Nat /\ Len(Probe) - Len(u.todo) = k + 1
        <5>1. Len(u.todo) = Len(t.todo) - 1
          BY <3>1, <3>2
        <5> HIDE DEF t, u
        <5> QED BY <2>2, <5>1
      <4> HIDE DEF k
      <4>2. most * (k + 1) - most = most * k
        BY <4>1
      <4> QED BY <4>1, <4>2 DEF Begun, k
    <3>7. ProbeStaysNear(most)'
      BY <2>1, <2>4, <2>8, <3>4, <3>5, <3>6 DEF ProbeStaysNear, PlanFromHere
    <3> QED BY <1>1, <2>1, <3>7, ArmsStay
  <2> QED BY <2>1, <2>6, <2>7, <2>8
<1>5. CASE PlanCartesian("probe")
  <2>1. /\ t.at = "plans" /\ pose' = pose
        /\ \/ Fails("probe")
           \/ /\ u.at = "moves" /\ u.base = t.base /\ u.todo = t.todo
              /\ Chain(pose, u.plan) /\ Len(u.plan) \in 1 .. Segments(t.goes)
    BY <1>1, <1>5, PlanCartesianFacts DEF TaskAt, KeepsBase
  <2>2. CASE Fails("probe")
    BY <1>1, <1>2, <2>1, <2>2, ArmsStay DEF Fails
  <2>3. CASE ~Fails("probe")
    <3>1. /\ u.at = "moves" /\ u.base = t.base /\ u.todo = t.todo
          /\ Chain(pose, u.plan) /\ Len(u.plan) \in 1 .. Segments(t.goes)
      BY <2>1, <2>3
    <3>2. /\ Within(t.base, pose, Begun(most, t) - most) /\ Segments(t.goes) <= most
          /\ Len(t.todo) <= Len(Probe) /\ t.todo # Probe
          /\ \A i \in DOMAIN t.todo : Segments(t.todo[i]) <= most
      BY <2>1 DEF ProbeStaysNear
    <3>3. Begun(most, t) \in Int /\ Len(u.plan) \in Nat /\ Len(u.plan) <= most
      <4>1. Len(Probe) - Len(t.todo) \in Int
        BY <1>1
      <4>2. Segments(t.goes) \in Nat
        BY <1>1, SegmentsType
      <4> QED BY <4>1, <4>2, <3>1, <3>2 DEF Begun
    <3>4. Within(t.base, pose, Begun(most, t) - Len(u.plan))
      <4>1. Begun(most, t) - most <= Begun(most, t) - Len(u.plan)
        BY <3>3
      <4> QED BY <1>1, <3>2, <3>3, <4>1, WithinMore
    <3>5. Begun(most, u) = Begun(most, t)
      BY <3>1 DEF Begun
    <3>6. ProbeStaysNear(most)'
      BY <2>1, <3>1, <3>2, <3>4, <3>5 DEF ProbeStaysNear, PlanFromHere
    <3> QED BY <1>1, <2>1, <3>6, ArmsStay
  <2> QED BY <2>2, <2>3
<1>6. CASE ProbeMoved
  <2>1. /\ t.at = "moves" /\ t.plan = <<>> /\ pose' = pose
        /\ u.at = "looks" /\ u.base = t.base /\ u.todo = t.todo
    BY <1>1, <1>6, ProbeMovedFacts DEF TaskAt, KeepsBase
  <2>2. /\ Within(t.base, pose, Begun(most, t) - Len(t.plan))
        /\ Len(t.todo) <= Len(Probe) /\ \A i \in DOMAIN t.todo : Segments(t.todo[i]) <= most
    BY <2>1 DEF ProbeStaysNear
  <2>3. Begun(most, u) = Begun(most, t) - Len(t.plan)
    <3>1. Len(Probe) - Len(t.todo) \in Int /\ Len(t.plan) = 0
      BY <1>1, <2>1
    <3> QED BY <2>1, <3>1 DEF Begun
  <2>4. ProbeStaysNear(most)'
    BY <2>1, <2>2, <2>3 DEF ProbeStaysNear, PlanFromHere
  <2> QED BY <1>1, <2>1, <2>4, ArmsStay
<1>7. CASE RestoreJointPos
  <2>1. /\ t.at = "restores" /\ pose' = pose
        /\ \/ Fails("probe")
           \/ u.at = "restoring" /\ u.plan = RestorePlan(pose, t.base)
    BY <1>1, <1>7, RestoreJointPosFacts DEF TaskAt
  <2>2. Within(t.base, pose, RestoreSteps)
    BY <2>1 DEF ProbeStaysNear
  <2>3. Chain(pose, RestorePlan(pose, t.base))
    BY <1>1, <2>2, RestorePlanFacts
  <2>4. CASE Fails("probe")
    BY <1>1, <1>2, <2>1, <2>4, ArmsStay DEF Fails
  <2>5. CASE u.at = "restoring" /\ u.plan = RestorePlan(pose, t.base)
    <3>1. ProbeStaysNear(most)'
      BY <2>1, <2>3, <2>5 DEF ProbeStaysNear, PlanFromHere
    <3> QED BY <1>1, <2>1, <3>1, ArmsStay
  <2> QED BY <2>1, <2>4, <2>5
<1>8. CASE RestoreStep
  <2>1. /\ t.at = "restoring"
        /\ \/ t.plan = <<>> /\ pose' = pose /\ u.at \in {"raised", "done"}
           \/ /\ t.plan # <<>> /\ pose' = Head(t.plan)
              /\ u.at = "restoring" /\ u.plan = Tail(t.plan)
           \/ t.plan # <<>> /\ u.at = "raised" /\ PartOfIt(Head(t.plan))
    BY <1>1, <1>8, RestoreStepFacts DEF Fails
  <2>2. Chain(pose, t.plan)
    BY <2>1 DEF ProbeStaysNear, PlanFromHere
  <2>3. CASE t.plan = <<>> /\ pose' = pose /\ u.at \in {"raised", "done"}
    BY <1>1, <1>2, <2>3, ArmsStay
  <2>4. CASE t.plan # <<>>
    <3>1. /\ Head(t.plan) \in Pose /\ Bounded(pose, Head(t.plan))
          /\ Chain(Head(t.plan), Tail(t.plan))
      BY <1>1, <2>2, <2>4, ChainGoesOn
    <3>2. ArmsMoveLittle
      <4>1. pose' = Head(t.plan) \/ PartOfIt(Head(t.plan))
        BY <2>1, <2>4
      <4> QED BY <1>1, <3>1, <4>1, CommandMoves
    <3>3. CASE u.at = "raised"
      BY <1>2, <3>2, <3>3
    <3>4. CASE pose' = Head(t.plan) /\ u.at = "restoring" /\ u.plan = Tail(t.plan)
      <4>1. ProbeStaysNear(most)'
        BY <3>1, <3>4 DEF ProbeStaysNear, PlanFromHere
      <4> QED BY <3>2, <4>1
    <3> QED BY <2>1, <2>4, <3>3, <3>4
  <2> QED BY <2>1, <2>3, <2>4
<1>9. CASE SendPlanned("probe")
  <2>1. /\ t.at = "moves" /\ t.plan # <<>>
        /\ \/ /\ pose' = Head(t.plan) /\ u.plan = Tail(t.plan) /\ u.at = "moves"
              /\ u.base = t.base /\ u.todo = t.todo
           \/ Fails("probe")
    BY <1>1, <1>9, SendPlannedFacts DEF TaskAt, KeepsBase
  <2>2. /\ Within(t.base, pose, Begun(most, t) - Len(t.plan)) /\ t.todo # Probe
        /\ Len(t.todo) <= Len(Probe) /\ \A i \in DOMAIN t.todo : Segments(t.todo[i]) <= most
        /\ Chain(pose, t.plan) /\ PlanFromHere("probe")
    BY <2>1 DEF ProbeStaysNear, PlanFromHere
  <2>3. ArmsMoveLittle /\ PlanFromHere("probe")'
    BY <1>1, <1>9, <2>2, SendingKeepsOn
  <2>4. CASE Fails("probe")
    BY <1>2, <2>3, <2>4 DEF Fails
  <2>5. CASE /\ pose' = Head(t.plan) /\ u.plan = Tail(t.plan) /\ u.at = "moves"
             /\ u.base = t.base /\ u.todo = t.todo
    <3>1. /\ Head(t.plan) \in Pose /\ Bounded(pose, Head(t.plan))
      BY <1>1, <2>1, <2>2, ChainGoesOn
    <3>2. Begun(most, t) \in Int /\ Len(t.plan) \in Nat /\ Len(Tail(t.plan)) = Len(t.plan) - 1
      <4>1. Len(Probe) - Len(t.todo) \in Int
        BY <1>1
      <4> QED BY <1>1, <2>1, <4>1, HeadTailProperties DEF Begun
    <3>3. Within(t.base, Head(t.plan), (Begun(most, t) - Len(t.plan)) + 1)
      BY <1>1, <2>2, <3>1, <3>2, WithinNext
    <3>4. (Begun(most, t) - Len(t.plan)) + 1 = Begun(most, u) - Len(u.plan)
      <4>1. Begun(most, u) = Begun(most, t)
        BY <2>5 DEF Begun
      <4>2. Len(u.plan) = Len(t.plan) - 1
        BY <2>5, <3>2
      <4> HIDE DEF t, u
      <4> QED BY <3>2, <4>1, <4>2
    <3>5. ProbeStaysNear(most)'
      BY <2>2, <2>3, <2>5, <3>3, <3>4 DEF ProbeStaysNear
    <3> QED BY <2>3, <3>5
  <2> QED BY <2>1, <2>4, <2>5
<1> QED BY <1>3, <1>4, <1>5, <1>6, <1>7, <1>8, <1>9 DEF ProbeStep

-----------------------------------------------------------------------------
(* The whole.                                                              *)

Inv == MoversOK /\ TeleopType /\ OneBridge

(* Who took the step, and what the others did not do.                      *)
Mover(p, A) == p \in cast /\ A /\ UNCHANGED <<teleopVars, cast>>
Teleoperator(p, A) == p \in cast /\ A /\ UNCHANGED <<task, execVars, cast>>
ProgramsStay == UNCHANGED <<task, execVars, cast>>

(* The actors of Next.                                                     *)
LEMMA StepCases ==
  ASSUME [Next]_vars
  PROVE  \/ Mover("exec", ExecStep)
         \/ Mover("probe", ProbeStep) /\ UNCHANGED execVars
         \/ Mover("pixel", PixelStep) /\ UNCHANGED execVars
         \/ Mover("servo", ServoStep) /\ UNCHANGED execVars
         \/ LeaderStep
         \/ SoStep
         \/ Teleoperator("yam", HandStep)
         \/ RobotStep
         \/ UNCHANGED <<robotVars, task, execVars, teleopVars, cast>>
  BY DEF Next, vars, MoverStep, Moves, Mover, Teleoperates, Teleoperator

(* A step of another actor leaves the teleoperation alone.                 *)
LEMMA TeleopStays ==
  ASSUME TeleopType, OneBridge, UNCHANGED teleopVars
  PROVE  TeleopType' /\ OneBridge' /\ hand' = hand
<1>1. UNCHANGED <<leader, moves, bridge, wire, runtime, web, hand>>
  BY DEF teleopVars
<1> QED BY <1>1 DEF TeleopType, OneBridge, LiveBridge

(* A step of the teleoperation leaves the programs alone.                  *)
LEMMA ProgramsStayFacts ==
  ASSUME MoversOK, RobotType', ProgramsStay
  PROVE  MoversOK' /\ transcript' = transcript /\ task' = task
<1>1. task' = task /\ round' = round /\ transcript' = transcript
  BY DEF ProgramsStay, execVars
<1> QED BY <1>1 DEF MoversOK, TasksType, ExecType, ObservationsAreTrue, Pending, TaskAt

(* The actors of Next, one by one: the bridge of the leader arm,           *)
LEMMA SoStepFacts ==
  ASSUME Inv, SoStep
  PROVE  "so" \in cast /\ Inv' /\ ProgramsStay
<1>1. RobotType /\ TeleopType /\ OneBridge /\ MoversOK
  BY DEF Inv, MoversOK
<1>3. "so" \in cast /\ ProgramsStay
  BY DEF SoStep, Teleoperates, ProgramsStay
<1>4. \/ \E w \in Webs : WebAsks(w) \/ WebStopped(w) \/ WebSpawns(w) \/ WebChecks(w)
      \/ \E b \in Bridges :
           BridgeEnds(b) \/ BridgeSyncs(b) \/ BridgeFires(b) \/ BridgeWaits(b) \/ Serves(b) \/ Closes(b)
  BY DEF SoStep, Teleoperates, Switchboard, Follows
<1>5. RobotType' /\ TeleopType' /\ OneBridge'
  <2>1. CASE \E w \in Webs : WebAsks(w) \/ WebStopped(w) \/ WebSpawns(w) \/ WebChecks(w)
    BY <1>1, <2>1, WebAsksFacts, WebStoppedFacts, WebSpawnsFacts, WebChecksFacts
  <2>2. CASE \E b \in Bridges :
               BridgeEnds(b) \/ BridgeSyncs(b) \/ BridgeFires(b) \/ BridgeWaits(b) \/ Serves(b) \/ Closes(b)
    BY <1>1, <2>2, BridgeEndsFacts, BridgeSyncsFacts, BridgeFiresFacts, BridgeWaitsFacts,
       ServesFacts, ClosesFacts
  <2> QED BY <1>4, <2>1, <2>2
<1> QED BY <1>1, <1>3, <1>5, ProgramsStayFacts DEF Inv

(* its operator,                                                           *)
LEMMA LeaderStepFacts ==
  ASSUME Inv, LeaderStep
  PROVE  Inv' /\ ProgramsStay /\ pose' = pose /\ hand' = hand
<1>1. RobotType /\ TeleopType /\ OneBridge /\ MoversOK
  BY DEF Inv, MoversOK
<1>2. LeaderMoved /\ ProgramsStay
  BY DEF LeaderStep, ProgramsStay
<1>3. RobotType' /\ pose' = pose /\ TeleopType' /\ OneBridge' /\ hand' = hand
  BY <1>1, <1>2, LeaderMovedFacts
<1> QED BY <1>1, <1>2, <1>3, ProgramsStayFacts DEF Inv

(* the keyboard client,                                                    *)
LEMMA HandStepFacts ==
  ASSUME Inv, Teleoperator("yam", HandStep)
  PROVE  Inv' /\ ProgramsStay /\ (HandKnows => HandKnows' /\ HandMoves)
<1>1. RobotType /\ TeleopType /\ OneBridge /\ MoversOK
  BY DEF Inv, MoversOK
<1>2. ProgramsStay /\ (HandStarts \/ HandReads \/ HandSends)
  BY DEF Teleoperator, HandStep, ProgramsStay
<1>3. /\ RobotType' /\ TeleopType' /\ OneBridge'
      /\ HandKnows => HandKnows' /\ HandMoves
  BY <1>1, <1>2, HandStartsFacts, HandReadsFacts, HandSendsFacts
<1> QED BY <1>1, <1>2, <1>3, ProgramsStayFacts DEF Inv

(* the robot,                                                              *)
LEMMA RobotStepFacts ==
  ASSUME Inv, RobotStep
  PROVE  Inv' /\ ProgramsStay /\ pose' = pose /\ hand' = hand
<1>1. RobotType /\ TeleopType /\ OneBridge /\ MoversOK
  BY DEF Inv, MoversOK
<1>2. /\ ProgramsStay /\ UNCHANGED teleopVars
      /\ up' = TRUE /\ pose' = pose /\ faults' = faults
  BY DEF RobotStep, Reconnects, ProgramsStay
<1>3. RobotType'
  BY <1>1, <1>2 DEF RobotType
<1> QED BY <1>1, <1>2, <1>3, ProgramsStayFacts, TeleopStays DEF Inv

(* nobody,                                                                 *)
LEMMA StutterFacts ==
  ASSUME Inv, UNCHANGED <<robotVars, task, execVars, teleopVars, cast>>
  PROVE  Inv' /\ ProgramsStay /\ pose' = pose /\ hand' = hand
<1>1. RobotType /\ TeleopType /\ OneBridge /\ MoversOK
  BY DEF Inv, MoversOK
<1>2. RobotType' /\ pose' = pose /\ ProgramsStay /\ UNCHANGED teleopVars
  BY <1>1, RobotStays DEF ProgramsStay
<1> QED BY <1>1, <1>2, ProgramsStayFacts, TeleopStays DEF Inv

(* and a program that plans.                                               *)
LEMMA MoverFacts ==
  ASSUME Inv, NEW p \in Movers, NEW A, Mover(p, A), MoversOK'
  PROVE  Inv' /\ p \in cast /\ cast' = cast /\ hand' = hand
<1>1. UNCHANGED teleopVars /\ p \in cast /\ cast' = cast
  BY DEF Mover
<1> QED BY <1>1, TeleopStays DEF Inv

(* What the steps of the programs that plan come to, all together.         *)
LEMMA MoverStepFacts ==
  ASSUME Inv
  PROVE  /\ Mover("exec", ExecStep) => Inv' /\ cast' = cast /\ hand' = hand /\ ExecStepOK
         /\ Mover("probe", ProbeStep) /\ UNCHANGED execVars =>
              /\ Inv' /\ cast' = cast /\ hand' = hand /\ Only("probe") /\ transcript' = transcript
         /\ Mover("pixel", PixelStep) /\ UNCHANGED execVars =>
              /\ Inv' /\ cast' = cast /\ hand' = hand /\ Only("pixel") /\ transcript' = transcript
         /\ Mover("servo", ServoStep) /\ UNCHANGED execVars =>
              /\ Inv' /\ cast' = cast /\ hand' = hand /\ Only("servo") /\ transcript' = transcript
<1>1. MoversOK /\ Movers = {"exec", "probe", "pixel", "servo"}
  BY DEF Inv, Movers
<1>2. ASSUME Mover("exec", ExecStep)
      PROVE  Inv' /\ cast' = cast /\ hand' = hand /\ ExecStepOK
  <2>1. ExecStepOK
    BY <1>1, <1>2, ExecStepFacts DEF Mover
  <2>2. MoversOK'
    BY <2>1 DEF ExecStepOK
  <2> QED BY <1>1, <1>2, <2>1, <2>2, MoverFacts
<1>3. ASSUME Mover("probe", ProbeStep), UNCHANGED execVars
      PROVE  /\ Inv' /\ cast' = cast /\ hand' = hand /\ Only("probe") /\ transcript' = transcript
  <2>1. Only("probe")
    BY <1>1, <1>3, ProbeStepTypes DEF Mover
  <2>2. MoversOK' /\ transcript' = transcript
    BY <1>1, <1>3, <2>1, NotExec
  <2> QED BY <1>1, <1>3, <2>1, <2>2, MoverFacts
<1>4. ASSUME Mover("pixel", PixelStep), UNCHANGED execVars
      PROVE  /\ Inv' /\ cast' = cast /\ hand' = hand /\ Only("pixel") /\ transcript' = transcript
  <2>1. Only("pixel")
    BY <1>1, <1>4, PixelStepFacts DEF Mover
  <2>2. MoversOK' /\ transcript' = transcript
    BY <1>1, <1>4, <2>1, NotExec
  <2> QED BY <1>1, <1>4, <2>1, <2>2, MoverFacts
<1>5. ASSUME Mover("servo", ServoStep), UNCHANGED execVars
      PROVE  /\ Inv' /\ cast' = cast /\ hand' = hand /\ Only("servo") /\ transcript' = transcript
  <2>1. ServoStepOK
    BY <1>1, <1>5, ServoStepFacts DEF Mover
  <2>2. Only("servo") /\ (task'["servo"].at \in ServoPlaces => task'["servo"].todo # <<>>)
    BY <2>1 DEF ServoStepOK
  <2>3. MoversOK' /\ transcript' = transcript
    BY <1>1, <1>5, <2>2, NotExec
  <2> QED BY <1>1, <1>5, <2>2, <2>3, MoverFacts
<1> QED BY <1>2, <1>3, <1>4, <1>5

(* The invariant holds at the start,                                       *)
LEMMA InvInit == Init => Inv
<1> SUFFICES ASSUME Init PROVE Inv
  OBVIOUS
<1>1. RobotType
  BY DEF Init, RobotInit, RobotType, Pose
<1>2. TasksType /\ Pending
  <2>1. task = [p \in Movers |-> Fresh] /\ Fresh.at = "none"
    BY DEF Init, MotionInit, Fresh
  <2> QED BY <2>1, FreshType DEF TasksType, Pending, TaskAt, Movers, ServoPlaces
<1>3. ExecType /\ ObservationsAreTrue
  <2>1. round = NoRound /\ transcript = <<>>
    BY DEF Init, ExecInit
  <2> QED BY <2>1, NoRoundFacts DEF ExecType, ObservationsAreTrue
<1>4. TeleopType /\ OneBridge
  BY OffFacts, SilentType, NoHandFacts
     DEF Init, TeleopInit, TeleopType, OneBridge, LiveBridge, OffIsOff, NoHandType
<1> QED BY <1>1, <1>2, <1>3, <1>4 DEF Inv, MoversOK

(* and every step keeps it.                                                *)
LEMMA InvNext ==
  ASSUME Inv, [Next]_vars
  PROVE  Inv'
BY StepCases, MoverStepFacts, LeaderStepFacts, SoStepFacts, HandStepFacts, RobotStepFacts,
   StutterFacts

(* The robot, the programs, the bridges and their connections keep their   *)
(* types, whatever the cast, the bounds and the number of bridges and web  *)
(* clients.                                                                *)
THEOREM TypeCorrect == Spec => [](RobotType /\ TasksType /\ ExecType /\ TeleopType)
<1>1. Inv => RobotType /\ TasksType /\ ExecType /\ TeleopType
  BY DEF Inv, MoversOK
<1> QED BY InvInit, InvNext, <1>1, PTL DEF Spec

(* However many web clients start and stop it, and however many processes  *)
(* there may be, one leader bridge at most is alive, and it is the one the *)
(* switchboard knows (leader_switchboard.py, start_process, stop_process). *)
THEOREM OneBridgeAtATime == Spec => []OneBridge
<1>1. Inv => OneBridge
  BY DEF Inv
<1> QED BY InvInit, InvNext, <1>1, PTL DEF Spec

-----------------------------------------------------------------------------
(* The transcript of yam_exec_loop.py.                                     *)

Astray(record) ==
  /\ record.check \in {"closer", "farther"} /\ record.tool = "cartesian"
  /\ \A unit \in Units : record.gain <= Tolerance[unit]

Transcribed ==
  \A i \in DOMAIN transcript :
    /\ RecordIsTrue(transcript[i])
    /\ Astray(transcript[i]) => i = Len(transcript) /\ TaskAt("exec", "done")

(* What AstrayMoveIsLast says, and what its induction needs: the record    *)
(* that stops the exec loop is the last and the loop has ended.            *)
LEMMA TranscribedMeans == Transcribed <=> AstrayMoveIsLast
BY Zenon DEF Transcribed, AstrayMoveIsLast, RecordIsTrue, CheckMeans, Astray

(* Steps of others keep it,                                                *)
LEMMA TranscribedStays ==
  ASSUME Transcribed, transcript' = transcript, task'["exec"] = task["exec"]
  PROVE  Transcribed'
  BY DEF Transcribed, TaskAt

(* those of the exec loop keep it,                                         *)
LEMMA TranscribedExec ==
  ASSUME Inv, Transcribed, ExecStepOK
  PROVE  Transcribed'
<1>1. transcript \in Seq(RecordType) /\ ExecType /\ ObservationsAreTrue
  BY DEF Inv, MoversOK, ExecType
<1>2. \A i \in DOMAIN transcript : RecordIsTrue(transcript[i]) /\ ~Astray(transcript[i])
  BY DEF Transcribed, ExecStepOK
<1>3. CASE transcript' = transcript
  BY <1>2, <1>3 DEF Transcribed
<1>4. CASE transcript' = Append(transcript, Record) /\ (StopsAfter(Record) => task'["exec"].at = "done")
  <2>1. Record \in RecordType /\ RecordIsTrue(Record)
    BY <1>1, RecordFacts
  <2>2. Astray(Record) => StopsAfter(Record)
    <3>1. Astray(Record) => Record.check # "closer"
      <4>1. Record.gain \in Int /\ \A unit \in Units : Tolerance[unit] \in Int
        BY <2>1, AssumedTypes DEF RecordType
      <4> QED BY <2>1, <4>1 DEF Astray, RecordIsTrue, CheckMeans
    <3> QED BY <3>1, <1>1, RecordFacts DEF Astray
  <2>3. /\ Len(transcript') = Len(transcript) + 1 /\ Len(transcript) \in Nat
        /\ DOMAIN transcript' = 1 .. Len(transcript')
        /\ \A i \in DOMAIN transcript : transcript'[i] = transcript[i]
        /\ transcript'[Len(transcript) + 1] = Record
        /\ DOMAIN transcript = 1 .. Len(transcript)
    BY <1>1, <1>4, <2>1, AppendProperties
  <2> SUFFICES ASSUME NEW i \in DOMAIN transcript'
               PROVE  /\ RecordIsTrue(transcript'[i])
                      /\ Astray(transcript'[i]) => i = Len(transcript') /\ task'["exec"].at = "done"
    BY DEF Transcribed, TaskAt, RecordIsTrue, Astray
  <2>4. CASE i = Len(transcript) + 1
    BY <1>4, <2>1, <2>2, <2>3, <2>4
  <2>5. CASE i # Len(transcript) + 1
    <3>1. i \in DOMAIN transcript
      BY <2>3, <2>5
    <3> QED BY <3>1, <2>3, <1>2
  <2> QED BY <2>4, <2>5
<1> QED BY <1>3, <1>4 DEF ExecStepOK

(* so every step does,                                                     *)
LEMMA TranscribedNext ==
  ASSUME Inv, Transcribed, [Next]_vars
  PROVE  Transcribed'
<1>1. CASE Mover("exec", ExecStep)
  BY <1>1, MoverStepFacts, TranscribedExec
<1>2. ASSUME NEW p \in Movers, p # "exec", Only(p), transcript' = transcript
      PROVE  Transcribed'
  <2>1. task'["exec"] = task["exec"]
    BY <1>2 DEF Only, Movers
  <2> QED BY <1>2, <2>1, TranscribedStays
<1>3. Movers = {"exec", "probe", "pixel", "servo"}
  BY DEF Movers
<1>4. CASE Mover("probe", ProbeStep) /\ UNCHANGED execVars
  BY <1>2, <1>3, <1>4, MoverStepFacts
<1>5. CASE Mover("pixel", PixelStep) /\ UNCHANGED execVars
  BY <1>2, <1>3, <1>5, MoverStepFacts
<1>6. CASE Mover("servo", ServoStep) /\ UNCHANGED execVars
  BY <1>2, <1>3, <1>6, MoverStepFacts
<1>7. ASSUME ProgramsStay PROVE Transcribed'
  BY <1>7, TranscribedStays DEF ProgramsStay, execVars
<1> QED BY StepCases, <1>1, <1>4, <1>5, <1>6, <1>7, LeaderStepFacts, SoStepFacts, HandStepFacts,
           RobotStepFacts, StutterFacts

(* and it holds at the start.                                              *)
LEMMA TranscribedInit == Init => Transcribed
  BY DEF Init, ExecInit, Transcribed

(* A recorded check of the distances is right whenever it could be made,   *)
(* whoever else moved the arm in between, and a Cartesian move it found    *)
(* not to come closer is the last of the transcript and ends the loop      *)
(* (yam_exec_loop.py, _progress_check and --stop-on-failed-progress).      *)
THEOREM ChecksAreTrue == Spec => []AstrayMoveIsLast
<1>1. Init => Inv /\ Transcribed
  BY InvInit, TranscribedInit
<1>2. Inv /\ Transcribed /\ [Next]_vars => (Inv /\ Transcribed)'
  BY InvNext, TranscribedNext
<1>3. Inv /\ Transcribed => AstrayMoveIsLast
  BY TranscribedMeans
<1> QED BY <1>1, <1>2, <1>3, PTL DEF Spec

-----------------------------------------------------------------------------
(* The probe that has the robot for itself.                                *)

ProbeAlone == cast = {"probe"} => ProbeGoesBack

(* The way back of a probe that moves alone is disturbed by nobody:        *)
LEMMA ProbeBackStays ==
  ASSUME ProbeGoesBack, pose' = pose, task' = task
  PROVE  ProbeGoesBack'
  BY DEF ProbeGoesBack

(* every step keeps its end at the base,                                   *)
LEMMA ProbeAloneNext ==
  ASSUME Inv, ProbeAlone, [Next]_vars
  PROVE  ProbeAlone'
<1> SUFFICES ASSUME cast' = {"probe"} PROVE ProbeGoesBack'
  BY DEF ProbeAlone
<1>0. MoversOK
  BY DEF Inv
<1>1. cast = {"probe"}
  BY StepCases, LeaderStepFacts, SoStepFacts, HandStepFacts, RobotStepFacts, StutterFacts
     DEF Mover, ProgramsStay
<1>2. ProbeGoesBack
  BY <1>1 DEF ProbeAlone
<1>3. CASE Mover("probe", ProbeStep)
  BY <1>0, <1>2, <1>3, ProbeBackStep DEF Mover
<1>4. ASSUME ProgramsStay, pose' = pose PROVE ProbeGoesBack'
  BY <1>2, <1>4, ProbeBackStays DEF ProgramsStay
<1>5. ~Mover("exec", ExecStep) /\ ~Mover("pixel", PixelStep) /\ ~Mover("servo", ServoStep)
  BY <1>1 DEF Mover
<1>6. ~Teleoperator("yam", HandStep) /\ ~SoStep
  BY <1>1, SoStepFacts DEF Teleoperator
<1> QED BY StepCases, <1>3, <1>4, <1>5, <1>6, LeaderStepFacts, RobotStepFacts, StutterFacts

(* which holds at the start.                                               *)
LEMMA ProbeAloneInit == Init => ProbeAlone
<1>1. Init => task["probe"].at = "none"
  BY DEF Init, MotionInit, Fresh, Movers
<1> QED BY <1>1 DEF ProbeAlone, ProbeGoesBack

(* yam_intentional_probe.py, if it has the robot for itself and ends well, *)
(* leaves both arms and the gripper where it found them: for any moves,    *)
(* misses of inverse kinematics and number of restore steps.               *)
THEOREM ProbeGoesHome == Spec => []ProbeRestores
<1>1. Init => Inv /\ ProbeAlone
  BY InvInit, ProbeAloneInit
<1>2. Inv /\ ProbeAlone /\ [Next]_vars => (Inv /\ ProbeAlone)'
  BY InvNext, ProbeAloneNext
<1>3. Inv /\ ProbeAlone => ProbeRestores
  BY DEF ProbeAlone, ProbeGoesBack, ProbeRestores, TaskAt
<1> QED BY <1>1, <1>2, <1>3, PTL DEF Spec

-----------------------------------------------------------------------------
(* A program that has the robot for itself.                                *)

Alone(most) ==
  /\ cast = {"exec"}  => PlanFromHere("exec")
  /\ cast = {"pixel"} => PlanFromHere("pixel")
  /\ cast = {"probe"} => ProbeStaysNear(most)
  /\ cast = {"servo"} => ServoKnows
  /\ cast = {"yam"}   => HandKnows

StepBounded ==
  \A client \in Clients \ {"so"}, part \in Arms :
    cast = {client} => Distance(pose[part], pose'[part]) <= LongestStep(client)

(* A robot that stays has taken no long step.                              *)
LEMMA AllStay ==
  ASSUME Inv, pose' = pose
  PROVE  StepBounded
<1>1. \A part \in Arms : Distance(pose[part], pose'[part]) = 0
  BY DEF Inv, MoversOK, RobotType, Pose, Parts, Arms, Distance
<1>2. \A client \in Clients \ {"so"} : LongestStep(client) \in Nat
  BY AssumedTypes DEF LongestStep, Distance
<1> QED BY <1>1, <1>2 DEF StepBounded

(* Steps of others leave the plan of a client that moves alone.            *)
LEMMA AloneStays ==
  ASSUME NEW most, Alone(most), ProgramsStay, pose' = pose, hand' = hand
  PROVE  Alone(most)'
  BY DEF Alone, ProgramsStay, PlanFromHere, ProbeStaysNear, ServoKnows, HandKnows

(* A client that moves alone takes short steps only,                       *)
LEMMA AloneNext ==
  ASSUME Inv, NEW most \in Nat, SlowEnough(most), Alone(most), [Next]_vars
  PROVE  Alone(most)' /\ StepBounded
<1>0. MoversOK /\ RobotType
  BY DEF Inv, MoversOK
<1>1. CASE Mover("exec", ExecStep)
  <2>1. "exec" \in cast /\ cast' = cast /\ ExecStepOK
    BY <1>1, MoverStepFacts DEF Mover
  <2>2. cast = {"exec"} => ArmsMoveLittle /\ PlanFromHere("exec")'
    BY <2>1 DEF ExecStepOK, Alone
  <2> QED BY <2>1, <2>2 DEF Alone, StepBounded, LongestStep, ArmsMoveLittle
<1>2. CASE Mover("probe", ProbeStep) /\ UNCHANGED execVars
  <2>1. "probe" \in cast /\ cast' = cast
    BY <1>2, MoverStepFacts DEF Mover
  <2>2. cast = {"probe"} => ArmsMoveLittle /\ ProbeStaysNear(most)'
    BY <1>0, <1>2, ProbeNearStep DEF Alone, Mover
  <2> QED BY <2>1, <2>2 DEF Alone, StepBounded, LongestStep, ArmsMoveLittle
<1>3. CASE Mover("pixel", PixelStep) /\ UNCHANGED execVars
  <2>1. "pixel" \in cast /\ cast' = cast
    BY <1>3, MoverStepFacts DEF Mover
  <2>2. cast = {"pixel"} => ArmsMoveLittle /\ PlanFromHere("pixel")'
    BY <1>0, <1>3, PixelStepFacts DEF Alone, Mover
  <2> QED BY <2>1, <2>2 DEF Alone, StepBounded, LongestStep, ArmsMoveLittle
<1>4. CASE Mover("servo", ServoStep) /\ UNCHANGED execVars
  <2>1. "servo" \in cast /\ cast' = cast
    BY <1>4, MoverStepFacts DEF Mover
  <2>2. cast = {"servo"} => ServoMoves /\ ServoKnows'
    BY <1>0, <1>4, ServoStepFacts DEF Alone, Mover, ServoStepOK
  <2>3. ServoReach = LongestStep("servo")
    BY DEF ServoReach, LongestStep
  <2> QED BY <2>1, <2>2, <2>3 DEF Alone, StepBounded, ServoMoves
<1>5. CASE Teleoperator("yam", HandStep)
  <2>1. "yam" \in cast /\ cast' = cast
    BY <1>5 DEF Teleoperator
  <2>2. cast = {"yam"} => HandKnows' /\ HandMoves
    BY <1>5, HandStepFacts DEF Alone
  <2>3. HandMoves => \A part \in Arms : Distance(pose[part], pose'[part]) <= MaxStep
    <3>1. pose["right"] \in Int
      BY <1>0 DEF RobotType, Pose, Parts, Arms
    <3> QED BY <3>1, AssumedTypes DEF HandMoves, Arms, Distance
  <2> QED BY <2>1, <2>2, <2>3 DEF Alone, StepBounded, LongestStep
<1>6. CASE SoStep
  <2>1. "so" \in cast /\ cast' = cast
    BY <1>6, SoStepFacts DEF ProgramsStay
  <2> QED BY <2>1 DEF Alone, StepBounded
<1>7. CASE LeaderStep \/ RobotStep \/ UNCHANGED <<robotVars, task, execVars, teleopVars, cast>>
  BY <1>7, LeaderStepFacts, RobotStepFacts, StutterFacts, AllStay, AloneStays
<1> QED BY StepCases, <1>1, <1>2, <1>3, <1>4, <1>5, <1>6, <1>7

(* from the start on.                                                      *)
LEMMA AloneInit ==
  ASSUME NEW most, Init
  PROVE  Alone(most)
<1>1. \A p \in Movers : task[p].at = "none"
  BY DEF Init, MotionInit, Fresh
<1>2. hand.at = "none"
  BY DEF Init, TeleopInit, NoHand
<1> QED BY <1>1, <1>2
        DEF Alone, PlanFromHere, ProbeStaysNear, ServoKnows, HandKnows, Movers

(* A program that has the robot for itself moves an arm by no more than    *)
(* its bound with every command: for any displacements and misses of       *)
(* inverse kinematics, whatever failed before and however the leader's     *)
(* button was pressed, if the way back of a probe is cut into as many      *)
(* steps as its moves have segments (yam_intentional_probe.py has four     *)
(* segments at most and 32 steps; nothing else bounds a restore step).     *)
THEOREM SmallSteps == ASSUME RestoreIsSlow PROVE Spec => StepsAreBounded
<1>1. PICK most \in 0 .. RestoreSteps : SlowEnough(most)
  BY DEF RestoreIsSlow, SlowEnough
<1>2. most \in Nat
  BY AssumedTypes
<1>3. Init => Inv /\ Alone(most)
  BY InvInit, AloneInit
<1>4. Inv /\ Alone(most) /\ [Next]_vars => (Inv /\ Alone(most))'
  BY <1>1, <1>2, InvNext, AloneNext
<1>5. Inv /\ Alone(most) /\ [Next]_vars => [StepBounded]_vars
  BY <1>1, <1>2, AloneNext
<1>6. [][StepBounded]_vars => StepsAreBounded
  <2>1. [StepBounded]_vars =>
          [ \A client \in Clients \ {"so"}, part \in Arms :
              cast = {client} =>
                Distance(pose[part], pose'[part]) <= LongestStep(client) ]_vars
    BY DEF StepBounded
  <2> QED BY <2>1, PTL DEF StepsAreBounded
<1> QED BY <1>3, <1>4, <1>5, <1>6, PTL DEF Spec
=============================================================================
