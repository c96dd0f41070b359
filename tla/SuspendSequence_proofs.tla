----------------------- MODULE SuspendSequence_proofs -----------------------
(***************************************************************************)
(* The transition of suspend.c, for every platform, and the user mode      *)
(* helpers of kmod.c, for any finite set of calls.                         *)
(***************************************************************************)
EXTENDS SuspendSequence, SequenceTheorems, FiniteSetTheorems, TLAPS

-----------------------------------------------------------------------------
(* Taking and giving back, as on a stack.                                  *)

(* Taking puts a thing on top.                                             *)
LEMMA TakeLast ==
  ASSUME NEW s \in Seq(Resources), NEW x \in Resources
  PROVE  /\ Append(s, x) \in Seq(Resources)
         /\ Len(Append(s, x)) = Len(s) + 1
         /\ Range(Append(s, x)) = Range(s) \cup {x}
         /\ SubSeq(Append(s, x), 1, Len(Append(s, x)) - 1) = s
<1> DEFINE t == Append(s, x)
<1>1. /\ t \in Seq(Resources) /\ Len(t) = Len(s) + 1 /\ t[Len(s) + 1] = x
      /\ \A i \in 1 .. Len(s) : t[i] = s[i]
  OBVIOUS
<1> HIDE DEF t
<1>2. Range(t) = Range(s) \cup {x}
  BY <1>1 DEF Range
<1>3. SubSeq(t, 1, Len(t) - 1) = s
  BY <1>1, SubSeqProperties, SeqEqual
<1> QED
  BY <1>1, <1>2, <1>3 DEF t

(* Giving back what was taken last.                                        *)
LEMMA GiveBackLast ==
  ASSUME NEW s \in Seq(Resources), NEW x \in Resources, x \notin Range(s)
  PROVE  RemoveFirst(Append(s, x), x) = s
<1> DEFINE t == Append(s, x)
           I == {i \in 1 .. Len(t) : t[i] = x}
<1>1. /\ t \in Seq(Resources) /\ Len(t) = Len(s) + 1 /\ t[Len(s) + 1] = x
      /\ \A i \in 1 .. Len(s) : t[i] = s[i] /\ t[i] # x
  BY DEF Range
<1> HIDE DEF t
<1>2. I = {Len(s) + 1}
  BY <1>1
<1>3. SelectInSeq(t, LAMBDA v : v = x) = Len(s) + 1
  BY <1>2 DEF SelectInSeq, Min
<1>4. RemoveFirst(t, x) = RemoveAt(t, Len(s) + 1)
  BY <1>1, <1>3 DEF RemoveFirst
<1>5. RemoveAt(t, Len(s) + 1) = s
  BY <1>1, SubSeqProperties, SeqEqual DEF RemoveAt
<1> QED
  BY <1>4, <1>5 DEF t

(* Giving back what was not taken.                                         *)
LEMMA GiveBackNone ==
  ASSUME NEW s \in Seq(Resources), NEW x, x \notin Range(s)
  PROVE  RemoveFirst(s, x) = s
BY DEF RemoveFirst, Range

(* What a transition holds after each thing it takes, on a platform with   *)
(* the callbacks o.                                                        *)
rank == [pm_mutex |-> 1, console |-> 2, notified |-> 3, umh |-> 4, tasks |-> 5,
         begin |-> 6, printk |-> 7, gfp |-> 8, devices |-> 9, platform |-> 10,
         noirq |-> 11, late |-> 12, cpus |-> 13, irqs |-> 14, sysdev |-> 15]

with_mutex(o) == Append(<<>>, "pm_mutex")
with_console(o) == Append(with_mutex(o), "console")
with_notified(o) == Append(with_console(o), "notified")
with_umh(o) == Append(with_notified(o), "umh")
with_tasks(o) == Append(with_umh(o), "tasks")
with_begin(o) == IF "begin" \in o THEN Append(with_tasks(o), "begin") ELSE with_tasks(o)
with_printk(o) == Append(with_begin(o), "printk")
with_gfp(o) == Append(with_printk(o), "gfp")
with_devices(o) == Append(with_gfp(o), "devices")
with_platform(o) == IF "prepare" \in o THEN Append(with_devices(o), "platform") ELSE with_devices(o)
with_noirq(o) == Append(with_platform(o), "noirq")
with_late(o) == IF "prepare_late" \in o THEN Append(with_noirq(o), "late") ELSE with_noirq(o)
with_cpus(o) == Append(with_late(o), "cpus")
with_irqs(o) == Append(with_cpus(o), "irqs")
with_sysdev(o) == Append(with_irqs(o), "sysdev")

(* t is s, or s with x on top.                                             *)
Level(t, s, x) ==
  /\ s \in Seq(Resources) /\ t \in Seq(Resources)
  /\ Range(s) \subseteq Range(t)
  /\ t = s \/ x \in Range(t)
  /\ \A y \in Range(t) : rank[y] \in Nat /\ rank[y] <= rank[x]
  /\ RemoveFirst(t, x) = s
  /\ t # s => Len(t) = Len(s) + 1 /\ SubSeq(t, 1, Len(t) - 1) = s

(* Taking something of a higher rank, or leaving it out, is one level.     *)
LEMMA OneLevel ==
  ASSUME NEW s \in Seq(Resources), NEW x \in Resources,
         rank[x] \in Nat, \A y \in Range(s) : rank[y] \in Nat /\ rank[y] < rank[x]
  PROVE  Level(Append(s, x), s, x) /\ Level(s, s, x)
<1>1. x \notin Range(s)
  OBVIOUS
<1>2. Level(Append(s, x), s, x)
  BY <1>1, TakeLast, GiveBackLast DEF Level
<1>3. Level(s, s, x)
  BY <1>1, GiveBackNone DEF Level
<1> QED
  BY <1>2, <1>3

(* Nothing on a level has a higher rank than what may be on top.           *)
LEMMA LevelRank ==
  ASSUME NEW t, NEW s, NEW x, Level(t, s, x)
  PROVE  t \in Seq(Resources) /\ \A y \in Range(t) : rank[y] \in Nat /\ rank[y] <= rank[x]
BY DEF Level

(* The order in which things are taken.                                    *)
LEMMA RankOrder ==
  /\ rank["pm_mutex"] = 1 /\ rank["console"] = 2 /\ rank["notified"] = 3
  /\ rank["umh"] = 4 /\ rank["tasks"] = 5 /\ rank["begin"] = 6
  /\ rank["printk"] = 7 /\ rank["gfp"] = 8 /\ rank["devices"] = 9
  /\ rank["platform"] = 10 /\ rank["noirq"] = 11 /\ rank["late"] = 12
  /\ rank["cpus"] = 13 /\ rank["irqs"] = 14 /\ rank["sysdev"] = 15
BY DEF rank

(* Each stack is one level above the one before it.                        *)
LEMMA Stack ==
  ASSUME NEW o
  PROVE  /\ Level(with_mutex(o), <<>>, "pm_mutex")
         /\ Level(with_console(o), with_mutex(o), "console")
         /\ Level(with_notified(o), with_console(o), "notified")
         /\ Level(with_umh(o), with_notified(o), "umh")
         /\ Level(with_tasks(o), with_umh(o), "tasks")
         /\ Level(with_begin(o), with_tasks(o), "begin")
         /\ Level(with_printk(o), with_begin(o), "printk")
         /\ Level(with_gfp(o), with_printk(o), "gfp")
         /\ Level(with_devices(o), with_gfp(o), "devices")
         /\ Level(with_platform(o), with_devices(o), "platform")
         /\ Level(with_noirq(o), with_platform(o), "noirq")
         /\ Level(with_late(o), with_noirq(o), "late")
         /\ Level(with_cpus(o), with_late(o), "cpus")
         /\ Level(with_irqs(o), with_cpus(o), "irqs")
         /\ Level(with_sysdev(o), with_irqs(o), "sysdev")
<1> USE DEF Resources
<1>1. <<>> \in Seq(Resources) /\ Range(<<>>) = {}
  BY DEF Range
<1>2. Level(with_mutex(o), <<>>, "pm_mutex")
  <2>1. /\ rank["pm_mutex"] \in Nat
        /\ \A y \in Range(<<>>) : rank[y] \in Nat /\ rank[y] < rank["pm_mutex"]
    BY <1>1, RankOrder
  <2> QED
    BY <1>1, <2>1, OneLevel DEF with_mutex
<1>3. Level(with_console(o), with_mutex(o), "console")
  <2>1. /\ with_mutex(o) \in Seq(Resources) /\ rank["console"] \in Nat
        /\ \A y \in Range(with_mutex(o)) : rank[y] \in Nat /\ rank[y] < rank["console"]
    BY <1>2, RankOrder, LevelRank
  <2> QED
    BY <2>1, OneLevel DEF with_console
<1>4. Level(with_notified(o), with_console(o), "notified")
  <2>1. /\ with_console(o) \in Seq(Resources) /\ rank["notified"] \in Nat
        /\ \A y \in Range(with_console(o)) : rank[y] \in Nat /\ rank[y] < rank["notified"]
    BY <1>3, RankOrder, LevelRank
  <2> QED
    BY <2>1, OneLevel DEF with_notified
<1>5. Level(with_umh(o), with_notified(o), "umh")
  <2>1. /\ with_notified(o) \in Seq(Resources) /\ rank["umh"] \in Nat
        /\ \A y \in Range(with_notified(o)) : rank[y] \in Nat /\ rank[y] < rank["umh"]
    BY <1>4, RankOrder, LevelRank
  <2> QED
    BY <2>1, OneLevel DEF with_umh
<1>6. Level(with_tasks(o), with_umh(o), "tasks")
  <2>1. /\ with_umh(o) \in Seq(Resources) /\ rank["tasks"] \in Nat
        /\ \A y \in Range(with_umh(o)) : rank[y] \in Nat /\ rank[y] < rank["tasks"]
    BY <1>5, RankOrder, LevelRank
  <2> QED
    BY <2>1, OneLevel DEF with_tasks
<1>7. Level(with_begin(o), with_tasks(o), "begin")
  <2>1. /\ with_tasks(o) \in Seq(Resources) /\ rank["begin"] \in Nat
        /\ \A y \in Range(with_tasks(o)) : rank[y] \in Nat /\ rank[y] < rank["begin"]
    BY <1>6, RankOrder, LevelRank
  <2> QED
    BY <2>1, OneLevel DEF with_begin
<1>8. Level(with_printk(o), with_begin(o), "printk")
  <2>1. /\ with_begin(o) \in Seq(Resources) /\ rank["printk"] \in Nat
        /\ \A y \in Range(with_begin(o)) : rank[y] \in Nat /\ rank[y] < rank["printk"]
    BY <1>7, RankOrder, LevelRank
  <2> QED
    BY <2>1, OneLevel DEF with_printk
<1>9. Level(with_gfp(o), with_printk(o), "gfp")
  <2>1. /\ with_printk(o) \in Seq(Resources) /\ rank["gfp"] \in Nat
        /\ \A y \in Range(with_printk(o)) : rank[y] \in Nat /\ rank[y] < rank["gfp"]
    BY <1>8, RankOrder, LevelRank
  <2> QED
    BY <2>1, OneLevel DEF with_gfp
<1>10. Level(with_devices(o), with_gfp(o), "devices")
  <2>1. /\ with_gfp(o) \in Seq(Resources) /\ rank["devices"] \in Nat
        /\ \A y \in Range(with_gfp(o)) : rank[y] \in Nat /\ rank[y] < rank["devices"]
    BY <1>9, RankOrder, LevelRank
  <2> QED
    BY <2>1, OneLevel DEF with_devices
<1>11. Level(with_platform(o), with_devices(o), "platform")
  <2>1. /\ with_devices(o) \in Seq(Resources) /\ rank["platform"] \in Nat
        /\ \A y \in Range(with_devices(o)) : rank[y] \in Nat /\ rank[y] < rank["platform"]
    BY <1>10, RankOrder, LevelRank
  <2> QED
    BY <2>1, OneLevel DEF with_platform
<1>12. Level(with_noirq(o), with_platform(o), "noirq")
  <2>1. /\ with_platform(o) \in Seq(Resources) /\ rank["noirq"] \in Nat
        /\ \A y \in Range(with_platform(o)) : rank[y] \in Nat /\ rank[y] < rank["noirq"]
    BY <1>11, RankOrder, LevelRank
  <2> QED
    BY <2>1, OneLevel DEF with_noirq
<1>13. Level(with_late(o), with_noirq(o), "late")
  <2>1. /\ with_noirq(o) \in Seq(Resources) /\ rank["late"] \in Nat
        /\ \A y \in Range(with_noirq(o)) : rank[y] \in Nat /\ rank[y] < rank["late"]
    BY <1>12, RankOrder, LevelRank
  <2> QED
    BY <2>1, OneLevel DEF with_late
<1>14. Level(with_cpus(o), with_late(o), "cpus")
  <2>1. /\ with_late(o) \in Seq(Resources) /\ rank["cpus"] \in Nat
        /\ \A y \in Range(with_late(o)) : rank[y] \in Nat /\ rank[y] < rank["cpus"]
    BY <1>13, RankOrder, LevelRank
  <2> QED
    BY <2>1, OneLevel DEF with_cpus
<1>15. Level(with_irqs(o), with_cpus(o), "irqs")
  <2>1. /\ with_cpus(o) \in Seq(Resources) /\ rank["irqs"] \in Nat
        /\ \A y \in Range(with_cpus(o)) : rank[y] \in Nat /\ rank[y] < rank["irqs"]
    BY <1>14, RankOrder, LevelRank
  <2> QED
    BY <2>1, OneLevel DEF with_irqs
<1>16. Level(with_sysdev(o), with_irqs(o), "sysdev")
  <2>1. /\ with_irqs(o) \in Seq(Resources) /\ rank["sysdev"] \in Nat
        /\ \A y \in Range(with_irqs(o)) : rank[y] \in Nat /\ rank[y] < rank["sysdev"]
    BY <1>15, RankOrder, LevelRank
  <2> QED
    BY <2>1, OneLevel DEF with_sysdev
<1> QED
  BY <1>2, <1>3, <1>4, <1>5, <1>6, <1>7, <1>8, <1>9,
     <1>10, <1>11, <1>12, <1>13, <1>14, <1>15, <1>16

(* Giving back on the way up.                                              *)
LEMMA LevelBack ==
  ASSUME NEW t, NEW s, NEW x, Level(t, s, x)
  PROVE  /\ RemoveFirst(t, x) = s
         /\ t # s => SubSeq(t, 1, Len(t) - 1) = s
BY DEF Level

(* What is held at each step: the way down and the way up meet at the same *)
(* stacks.                                                                 *)
stack(p, o) ==
  CASE p = "idle" -> <<>>
    [] p \in {"prepare", "unlock"} -> with_mutex(o)
    [] p \in {"notify", "restore_console"} -> with_console(o)
    [] p \in {"umh", "umh_wait", "post"} -> with_notified(o)
    [] p \in {"freeze", "enable"} -> with_umh(o)
    [] p \in {"begin", "thaw", "freeze_failed"} -> with_tasks(o)
    [] p \in {"printk", "end"} -> with_begin(o)
    [] p \in {"gfp", "resume_console"} -> with_printk(o)
    [] p \in {"devices", "restore_gfp"} -> with_gfp(o)
    [] p \in {"platform", "recover", "resume"} -> with_devices(o)
    [] p \in {"noirq", "finish"} -> with_platform(o)
    [] p \in {"late", "power_up"} -> with_noirq(o)
    [] p \in {"cpus", "wake"} -> with_late(o)
    [] p \in {"irqs", "enable_cpus"} -> with_cpus(o)
    [] p \in {"sysdev", "irqs_on"} -> with_irqs(o)
    [] p \in {"enter", "sysdev_resume"} -> with_sysdev(o)

(* The same, step by step.                                                 *)
LEMMA StackAt ==
  ASSUME NEW o
  PROVE  /\ stack("idle", o) = <<>>
         /\ stack("prepare", o) = with_mutex(o)
         /\ stack("unlock", o) = with_mutex(o)
         /\ stack("notify", o) = with_console(o)
         /\ stack("restore_console", o) = with_console(o)
         /\ stack("umh", o) = with_notified(o)
         /\ stack("umh_wait", o) = with_notified(o)
         /\ stack("post", o) = with_notified(o)
         /\ stack("freeze", o) = with_umh(o)
         /\ stack("enable", o) = with_umh(o)
         /\ stack("begin", o) = with_tasks(o)
         /\ stack("thaw", o) = with_tasks(o)
         /\ stack("freeze_failed", o) = with_tasks(o)
         /\ stack("printk", o) = with_begin(o)
         /\ stack("end", o) = with_begin(o)
         /\ stack("gfp", o) = with_printk(o)
         /\ stack("resume_console", o) = with_printk(o)
         /\ stack("devices", o) = with_gfp(o)
         /\ stack("restore_gfp", o) = with_gfp(o)
         /\ stack("platform", o) = with_devices(o)
         /\ stack("recover", o) = with_devices(o)
         /\ stack("resume", o) = with_devices(o)
         /\ stack("noirq", o) = with_platform(o)
         /\ stack("finish", o) = with_platform(o)
         /\ stack("late", o) = with_noirq(o)
         /\ stack("power_up", o) = with_noirq(o)
         /\ stack("cpus", o) = with_late(o)
         /\ stack("wake", o) = with_late(o)
         /\ stack("irqs", o) = with_cpus(o)
         /\ stack("enable_cpus", o) = with_cpus(o)
         /\ stack("sysdev", o) = with_irqs(o)
         /\ stack("irqs_on", o) = with_irqs(o)
         /\ stack("enter", o) = with_sysdev(o)
         /\ stack("sysdev_resume", o) = with_sysdev(o)
BY DEF stack

-----------------------------------------------------------------------------
GoingDown == {"prepare", "notify", "umh", "umh_wait", "freeze", "begin", "printk", "gfp",
              "devices", "platform", "noirq", "late", "cpus", "irqs", "sysdev", "enter"}

(* Outside these steps helpers are disabled.                               *)
HelpersAllowed == {"idle", "prepare", "unlock", "notify", "restore_console", "umh", "post"}

(* The transition's part of the inductive invariant.                       *)
SeqInv ==
  /\ pc \in Steps /\ suspend_ops \in OpSets \cup {{}}
  /\ other_mutex \in BOOLEAN /\ error \in BOOLEAN /\ slept \in BOOLEAN
  /\ held = stack(pc, suspend_ops)
  /\ held \in Seq(Resources)
  /\ RefusedMeansAwake
  /\ pc \in GoingDown => ~ error /\ ~ slept
  /\ usermodehelper_disabled = (pc \notin HelpersAllowed)

(* A step that gives back something gives back what was taken last.        *)
LastGivenBack ==
  Range(held') # Range(held) /\ Len(held') < Len(held)
    => held' = SubSeq(held, 1, Len(held) - 1)

Frame == UNCHANGED <<suspend_ops, other_mutex, usermodehelper_disabled, slept>>
SameHelpers(p, q) == p \in HelpersAllowed <=> q \in HelpersAllowed

(* A step of the way down takes one thing.                                 *)
LEMMA DownStep ==
  ASSUME SeqInv, Frame, NEW at \in GoingDown, NEW next \in GoingDown,
         NEW x \in Resources, down(at, x, next), SameHelpers(at, next),
         stack(next, suspend_ops) = Append(stack(at, suspend_ops), x)
  PROVE  SeqInv' /\ LastGivenBack
<1>1. /\ pc = at /\ pc' = next /\ held' = Append(held, x) /\ error' = error
      /\ suspend_ops' = suspend_ops /\ other_mutex' = other_mutex /\ slept' = slept
      /\ usermodehelper_disabled' = usermodehelper_disabled
  BY DEF down, take, goto, Frame
<1>2. held' = stack(pc', suspend_ops') /\ held' \in Seq(Resources)
  BY <1>1 DEF SeqInv
<1>3. LastGivenBack
  BY <1>1, TakeLast DEF LastGivenBack, SeqInv
<1> QED
  BY <1>1, <1>2, <1>3 DEF SeqInv, RefusedMeansAwake, SameHelpers, GoingDown, Steps

(* A callback the platform has not got, or a step that takes nothing.      *)
LEMMA SkippedStep ==
  ASSUME SeqInv, Frame, NEW at \in Steps, NEW next \in Steps, skipped(at, next),
         SameHelpers(at, next), next \in GoingDown => at \in GoingDown,
         stack(next, suspend_ops) = stack(at, suspend_ops)
  PROVE  SeqInv' /\ LastGivenBack
<1>1. /\ pc = at /\ pc' = next /\ held' = held /\ error' = error
      /\ suspend_ops' = suspend_ops /\ other_mutex' = other_mutex /\ slept' = slept
      /\ usermodehelper_disabled' = usermodehelper_disabled
  BY DEF skipped, goto, Frame
<1> QED
  BY <1>1 DEF SeqInv, RefusedMeansAwake, SameHelpers, LastGivenBack

(* A failure jumps to the label whose stack is what is then held.          *)
LEMMA FailedStep ==
  ASSUME SeqInv, Frame, NEW at \in GoingDown, NEW label \in Steps \ GoingDown,
         NEW kept \in Seq(Resources),
         fails(at, kept, label) \/ refused(at, kept, label), SameHelpers(at, label),
         stack(label, suspend_ops) = stack(at, suspend_ops) \o kept
  PROVE  SeqInv' /\ LastGivenBack
<1>1. /\ pc = at /\ pc' = label /\ held' = held \o kept /\ error' \in {error, TRUE}
      /\ suspend_ops' = suspend_ops /\ other_mutex' = other_mutex /\ slept' = slept
      /\ usermodehelper_disabled' = usermodehelper_disabled
  BY DEF fails, refused, goto, Frame
<1>2. held' = stack(pc', suspend_ops') /\ held' \in Seq(Resources) /\ Len(held') >= Len(held)
  BY <1>1, ConcatProperties DEF SeqInv
<1>3. LastGivenBack
  BY <1>1, <1>2, LenProperties DEF LastGivenBack, SeqInv
<1>4. error' \in BOOLEAN /\ ~ slept'
  BY <1>1 DEF SeqInv
<1> QED
  BY <1>1, <1>2, <1>3, <1>4 DEF SeqInv, RefusedMeansAwake, SameHelpers

(* A step of the way up gives back one level.                              *)
LEMMA UpStep ==
  ASSUME SeqInv, Frame, NEW at \in Steps \ GoingDown, NEW next \in Steps \ GoingDown,
         NEW x, up(at, x, next), SameHelpers(at, next),
         Level(stack(at, suspend_ops), stack(next, suspend_ops), x)
  PROVE  SeqInv' /\ LastGivenBack
<1>1. /\ pc = at /\ pc' = next /\ held' = RemoveFirst(held, x) /\ error' = error
      /\ suspend_ops' = suspend_ops /\ other_mutex' = other_mutex /\ slept' = slept
      /\ usermodehelper_disabled' = usermodehelper_disabled
  BY DEF up, give_back, goto, Frame
<1>2. held' = stack(pc', suspend_ops') /\ held' \in Seq(Resources)
  BY <1>1, LevelBack DEF SeqInv, Level
<1>3. LastGivenBack
  BY <1>1, <1>2, LevelBack DEF LastGivenBack, SeqInv
<1> QED
  BY <1>1, <1>2, <1>3 DEF SeqInv, RefusedMeansAwake, SameHelpers

-----------------------------------------------------------------------------
(* The way down and up.                                                    *)
(* A failure that keeps nothing, and one that keeps what it took.          *)
LEMMA FailedKeepsNone ==
  ASSUME SeqInv, Frame, NEW at \in GoingDown, NEW label \in Steps \ GoingDown,
         fails(at, <<>>, label) \/ refused(at, <<>>, label), SameHelpers(at, label),
         stack(label, suspend_ops) = stack(at, suspend_ops)
  PROVE  SeqInv' /\ LastGivenBack
<1>1. pc = at /\ stack(at, suspend_ops) \in Seq(Resources)
  BY DEF SeqInv, fails, refused
<1>2. <<>> \in Seq(Resources) /\ stack(at, suspend_ops) \o <<>> = stack(at, suspend_ops)
  BY <1>1
<1> QED
  BY <1>2, FailedStep

(* The step failed but has taken one resource, which its label gives back. *)
LEMMA FailedKeepsOne ==
  ASSUME SeqInv, Frame, NEW at \in GoingDown, NEW label \in Steps \ GoingDown,
         NEW x \in Resources,
         fails(at, <<x>>, label) \/ refused(at, <<x>>, label), SameHelpers(at, label),
         stack(label, suspend_ops) = Append(stack(at, suspend_ops), x)
  PROVE  SeqInv' /\ LastGivenBack
<1>1. pc = at /\ stack(at, suspend_ops) \in Seq(Resources)
  BY DEF SeqInv, fails, refused
<1>2. <<x>> \in Seq(Resources)
      /\ stack(at, suspend_ops) \o <<x>> = Append(stack(at, suspend_ops), x)
  BY <1>1
<1> QED
  BY <1>2, FailedStep

(* Every error path gives back what its labels undo, and no more.          *)
LEMMA TransitionStep ==
  ASSUME SeqInv, transition,
         UNCHANGED <<suspend_ops, other_mutex, usermodehelper_disabled>>
  PROVE  SeqInv' /\ LastGivenBack
<1> DEFINE o == suspend_ops
<1>0. /\ "begin" \in o => "end" \in o
      /\ "prepare" \in o => "finish" \in o
      /\ "prepare_late" \in o => "wake" \in o
  BY OpSetsAssumption DEF SeqInv
<1>1. CASE suspend_ops_enter
  <2>1. /\ pc = "enter" /\ pc' = "sysdev_resume" /\ held' = held /\ error' = error
        /\ slept' \in BOOLEAN
    BY <1>1 DEF suspend_ops_enter, skipped, goto
  <2>2. ~ error /\ usermodehelper_disabled
    BY <2>1 DEF SeqInv, GoingDown, HelpersAllowed
  <2>3. stack("enter", o) = stack("sysdev_resume", o)
    BY StackAt
  <2> QED
    BY <2>1, <2>2, <2>3 DEF SeqInv, RefusedMeansAwake, LastGivenBack, GoingDown,
       HelpersAllowed, Steps
<1> SUFFICES ASSUME ~ suspend_ops_enter PROVE SeqInv' /\ LastGivenBack
  BY <1>1
<1> Frame
  BY DEF transition, Frame
<1>2. CASE suspend_prepare
  <2>1. CASE op("enter") /\ down("prepare", "console", "notify")
    <3>1. stack("notify", o) = Append(stack("prepare", o), "console")
      BY <2>1, StackAt DEF with_console, op
    <3> QED
      BY <2>1, <3>1, DownStep DEF GoingDown, Steps, Resources, SameHelpers,
         HelpersAllowed
  <2>2. CASE ~ op("enter") /\ fails("prepare", <<>>, "unlock")
    <3>1. stack("unlock", o) = stack("prepare", o)
      BY <2>2, StackAt
    <3>2. /\ fails("prepare", <<>>, "unlock") \/ refused("prepare", <<>>, "unlock")
          /\ "prepare" \in GoingDown /\ "unlock" \in Steps \ GoingDown
          /\ SameHelpers("prepare", "unlock")
      BY <2>2 DEF GoingDown, Steps, Resources, SameHelpers, HelpersAllowed
    <3> QED
      BY <3>1, <3>2, FailedKeepsNone
  <2> QED
    BY <1>2, <2>1, <2>2 DEF suspend_prepare
<1>3. CASE pm_notifier_call_chain
  <2>1. CASE down("notify", "notified", "umh")
    <3>1. stack("umh", o) = Append(stack("notify", o), "notified")
      BY StackAt DEF with_notified
    <3> QED
      BY <2>1, <3>1, DownStep DEF GoingDown, Steps, Resources, SameHelpers,
         HelpersAllowed
  <2>2. CASE fails("notify", <<"notified">>, "post")
    <3>1. stack("post", o) = Append(stack("notify", o), "notified")
      BY StackAt DEF with_notified
    <3>2. /\ fails("notify", <<"notified">>, "post") \/ refused("notify", <<"notified">>, "post")
          /\ "notify" \in GoingDown /\ "post" \in Steps \ GoingDown
          /\ SameHelpers("notify", "post") /\ "notified" \in Resources
      BY <2>2 DEF GoingDown, Steps, Resources, SameHelpers, HelpersAllowed
    <3> QED
      BY <3>1, <3>2, FailedKeepsOne
  <2> QED
    BY <1>3, <2>1, <2>2 DEF pm_notifier_call_chain
<1>4. CASE suspend_freeze_processes
  <2>1. CASE down("freeze", "tasks", "begin")
    <3>1. stack("begin", o) = Append(stack("freeze", o), "tasks")
      BY StackAt DEF with_tasks
    <3> QED
      BY <2>1, <3>1, DownStep DEF GoingDown, Steps, Resources, SameHelpers,
         HelpersAllowed
  <2>2. CASE fails("freeze", <<"tasks">>, "freeze_failed")
    <3>1. stack("freeze_failed", o) = Append(stack("freeze", o), "tasks")
      BY StackAt DEF with_tasks
    <3>2. /\ fails("freeze", <<"tasks">>, "freeze_failed") \/ refused("freeze", <<"tasks">>, "freeze_failed")
          /\ "freeze" \in GoingDown /\ "freeze_failed" \in Steps \ GoingDown
          /\ SameHelpers("freeze", "freeze_failed") /\ "tasks" \in Resources
      BY <2>2 DEF GoingDown, Steps, Resources, SameHelpers, HelpersAllowed
    <3> QED
      BY <3>1, <3>2, FailedKeepsOne
  <2> QED
    BY <1>4, <2>1, <2>2 DEF suspend_freeze_processes
<1>5. CASE suspend_ops_begin
  <2>1. CASE op("begin") /\ down("begin", "begin", "printk")
    <3>1. stack("printk", o) = Append(stack("begin", o), "begin")
      BY <2>1, StackAt DEF with_begin, op
    <3> QED
      BY <2>1, <3>1, DownStep DEF GoingDown, Steps, Resources, SameHelpers,
         HelpersAllowed
  <2>2. CASE op("begin") /\ fails("begin", <<"begin">>, "end")
    <3>1. stack("end", o) = Append(stack("begin", o), "begin")
      BY <2>2, StackAt DEF with_begin, op
    <3>2. /\ fails("begin", <<"begin">>, "end") \/ refused("begin", <<"begin">>, "end")
          /\ "begin" \in GoingDown /\ "end" \in Steps \ GoingDown
          /\ SameHelpers("begin", "end") /\ "begin" \in Resources
      BY <2>2 DEF GoingDown, Steps, Resources, SameHelpers, HelpersAllowed
    <3> QED
      BY <3>1, <3>2, FailedKeepsOne
  <2>3. CASE ~ op("begin") /\ skipped("begin", "printk")
    <3>1. stack("printk", o) = stack("begin", o)
      BY <2>3, StackAt DEF with_begin, op
    <3> QED
      BY <2>3, <3>1, SkippedStep DEF GoingDown, Steps, Resources, SameHelpers,
         HelpersAllowed
  <2> QED
    BY <1>5, <2>1, <2>2, <2>3 DEF suspend_ops_begin
<1>6. CASE suspend_console
  BY <1>6, StackAt, DownStep DEF suspend_console, with_printk, GoingDown, Steps,
     Resources, SameHelpers, HelpersAllowed
<1>7. CASE pm_restrict_gfp_mask
  BY <1>7, StackAt, DownStep DEF pm_restrict_gfp_mask, with_gfp, GoingDown,
     Steps, Resources, SameHelpers, HelpersAllowed
<1>8. CASE dpm_suspend_start
  <2>1. CASE down("devices", "devices", "platform")
    <3>1. stack("platform", o) = Append(stack("devices", o), "devices")
      BY StackAt DEF with_devices
    <3> QED
      BY <2>1, <3>1, DownStep DEF GoingDown, Steps, Resources, SameHelpers,
         HelpersAllowed
  <2>2. CASE fails("devices", <<"devices">>, "recover")
    <3>1. stack("recover", o) = Append(stack("devices", o), "devices")
      BY StackAt DEF with_devices
    <3>2. /\ fails("devices", <<"devices">>, "recover") \/ refused("devices", <<"devices">>, "recover")
          /\ "devices" \in GoingDown /\ "recover" \in Steps \ GoingDown
          /\ SameHelpers("devices", "recover") /\ "devices" \in Resources
      BY <2>2 DEF GoingDown, Steps, Resources, SameHelpers, HelpersAllowed
    <3> QED
      BY <3>1, <3>2, FailedKeepsOne
  <2> QED
    BY <1>8, <2>1, <2>2 DEF dpm_suspend_start
<1>9. CASE suspend_ops_recover
  BY <1>9, StackAt, SkippedStep DEF suspend_ops_recover, GoingDown, Steps,
     Resources, SameHelpers, HelpersAllowed
<1>10. CASE suspend_ops_prepare
  <2>1. CASE op("prepare") /\ down("platform", "platform", "noirq")
    <3>1. stack("noirq", o) = Append(stack("platform", o), "platform")
      BY <2>1, StackAt DEF with_platform, op
    <3> QED
      BY <2>1, <3>1, DownStep DEF GoingDown, Steps, Resources, SameHelpers,
         HelpersAllowed
  <2>2. CASE op("prepare") /\ refused("platform", <<>>, "resume")
    <3>1. stack("resume", o) = stack("platform", o)
      BY <2>2, StackAt
    <3>2. /\ fails("platform", <<>>, "resume") \/ refused("platform", <<>>, "resume")
          /\ "platform" \in GoingDown /\ "resume" \in Steps \ GoingDown
          /\ SameHelpers("platform", "resume")
      BY <2>2 DEF GoingDown, Steps, Resources, SameHelpers, HelpersAllowed
    <3> QED
      BY <3>1, <3>2, FailedKeepsNone
  <2>3. CASE ~ op("prepare") /\ skipped("platform", "noirq")
    <3>1. stack("noirq", o) = stack("platform", o)
      BY <2>3, StackAt DEF with_platform, op
    <3> QED
      BY <2>3, <3>1, SkippedStep DEF GoingDown, Steps, Resources, SameHelpers,
         HelpersAllowed
  <2> QED
    BY <1>10, <2>1, <2>2, <2>3 DEF suspend_ops_prepare
<1>11. CASE dpm_suspend_noirq
  <2>1. CASE down("noirq", "noirq", "late")
    <3>1. stack("late", o) = Append(stack("noirq", o), "noirq")
      BY StackAt DEF with_noirq
    <3> QED
      BY <2>1, <3>1, DownStep DEF GoingDown, Steps, Resources, SameHelpers,
         HelpersAllowed
  <2>2. CASE refused("noirq", <<>>, "finish")
    <3>1. stack("finish", o) = stack("noirq", o)
      BY StackAt
    <3>2. /\ fails("noirq", <<>>, "finish") \/ refused("noirq", <<>>, "finish")
          /\ "noirq" \in GoingDown /\ "finish" \in Steps \ GoingDown
          /\ SameHelpers("noirq", "finish")
      BY <2>2 DEF GoingDown, Steps, Resources, SameHelpers, HelpersAllowed
    <3> QED
      BY <3>1, <3>2, FailedKeepsNone
  <2> QED
    BY <1>11, <2>1, <2>2 DEF dpm_suspend_noirq
<1>12. CASE prepare_late
  <2>1. CASE op("prepare_late") /\ down("late", "late", "cpus")
    <3>1. stack("cpus", o) = Append(stack("late", o), "late")
      BY <2>1, StackAt DEF with_late, op
    <3> QED
      BY <2>1, <3>1, DownStep DEF GoingDown, Steps, Resources, SameHelpers,
         HelpersAllowed
  <2>2. CASE op("prepare_late") /\ refused("late", <<>>, "power_up")
    <3>1. stack("power_up", o) = stack("late", o)
      BY <2>2, StackAt
    <3>2. /\ fails("late", <<>>, "power_up") \/ refused("late", <<>>, "power_up")
          /\ "late" \in GoingDown /\ "power_up" \in Steps \ GoingDown
          /\ SameHelpers("late", "power_up")
      BY <2>2 DEF GoingDown, Steps, Resources, SameHelpers, HelpersAllowed
    <3> QED
      BY <3>1, <3>2, FailedKeepsNone
  <2>3. CASE ~ op("prepare_late") /\ skipped("late", "cpus")
    <3>1. stack("cpus", o) = stack("late", o)
      BY <2>3, StackAt DEF with_late, op
    <3> QED
      BY <2>3, <3>1, SkippedStep DEF GoingDown, Steps, Resources, SameHelpers,
         HelpersAllowed
  <2> QED
    BY <1>12, <2>1, <2>2, <2>3 DEF prepare_late
<1>13. CASE disable_nonboot_cpus
  <2>1. CASE down("cpus", "cpus", "irqs")
    <3>1. stack("irqs", o) = Append(stack("cpus", o), "cpus")
      BY StackAt DEF with_cpus
    <3> QED
      BY <2>1, <3>1, DownStep DEF GoingDown, Steps, Resources, SameHelpers,
         HelpersAllowed
  <2>2. CASE refused("cpus", <<"cpus">>, "enable_cpus")
    <3>1. stack("enable_cpus", o) = Append(stack("cpus", o), "cpus")
      BY StackAt DEF with_cpus
    <3>2. /\ fails("cpus", <<"cpus">>, "enable_cpus") \/ refused("cpus", <<"cpus">>, "enable_cpus")
          /\ "cpus" \in GoingDown /\ "enable_cpus" \in Steps \ GoingDown
          /\ SameHelpers("cpus", "enable_cpus") /\ "cpus" \in Resources
      BY <2>2 DEF GoingDown, Steps, Resources, SameHelpers, HelpersAllowed
    <3> QED
      BY <3>1, <3>2, FailedKeepsOne
  <2> QED
    BY <1>13, <2>1, <2>2 DEF disable_nonboot_cpus
<1>14. CASE arch_suspend_disable_irqs
  BY <1>14, StackAt, DownStep DEF arch_suspend_disable_irqs, with_irqs,
     GoingDown, Steps, Resources, SameHelpers, HelpersAllowed
<1>15. CASE sysdev_suspend
  <2>1. CASE down("sysdev", "sysdev", "enter")
    <3>1. stack("enter", o) = Append(stack("sysdev", o), "sysdev")
      BY StackAt DEF with_sysdev
    <3> QED
      BY <2>1, <3>1, DownStep DEF GoingDown, Steps, Resources, SameHelpers,
         HelpersAllowed
  <2>2. CASE refused("sysdev", <<>>, "irqs_on")
    <3>1. stack("irqs_on", o) = stack("sysdev", o)
      BY StackAt
    <3>2. /\ fails("sysdev", <<>>, "irqs_on") \/ refused("sysdev", <<>>, "irqs_on")
          /\ "sysdev" \in GoingDown /\ "irqs_on" \in Steps \ GoingDown
          /\ SameHelpers("sysdev", "irqs_on")
      BY <2>2 DEF GoingDown, Steps, Resources, SameHelpers, HelpersAllowed
    <3> QED
      BY <3>1, <3>2, FailedKeepsNone
  <2> QED
    BY <1>15, <2>1, <2>2 DEF sysdev_suspend
<1>16. CASE sysdev_resume
  BY <1>16, StackAt, Stack, UpStep DEF sysdev_resume, GoingDown, Steps,
     Resources, SameHelpers, HelpersAllowed
<1>17. CASE arch_suspend_enable_irqs
  BY <1>17, StackAt, Stack, UpStep DEF arch_suspend_enable_irqs, GoingDown,
     Steps, Resources, SameHelpers, HelpersAllowed
<1>18. CASE enable_nonboot_cpus
  BY <1>18, StackAt, Stack, UpStep DEF enable_nonboot_cpus, GoingDown, Steps,
     Resources, SameHelpers, HelpersAllowed
<1>19. CASE suspend_ops_wake
  BY <1>0, <1>19, StackAt, Stack, UpStep, SkippedStep DEF suspend_ops_wake,
     with_late, op, GoingDown, Steps, Resources, SameHelpers, HelpersAllowed
<1>20. CASE dpm_resume_noirq
  BY <1>20, StackAt, Stack, UpStep DEF dpm_resume_noirq, GoingDown, Steps,
     Resources, SameHelpers, HelpersAllowed
<1>21. CASE suspend_ops_finish
  BY <1>0, <1>21, StackAt, Stack, UpStep, SkippedStep DEF suspend_ops_finish,
     with_platform, op, GoingDown, Steps, Resources, SameHelpers, HelpersAllowed
<1>22. CASE dpm_resume_end
  BY <1>22, StackAt, Stack, UpStep DEF dpm_resume_end, GoingDown, Steps,
     Resources, SameHelpers, HelpersAllowed
<1>23. CASE pm_restore_gfp_mask
  BY <1>23, StackAt, Stack, UpStep DEF pm_restore_gfp_mask, GoingDown, Steps,
     Resources, SameHelpers, HelpersAllowed
<1>24. CASE resume_console
  BY <1>24, StackAt, Stack, UpStep DEF resume_console, GoingDown, Steps,
     Resources, SameHelpers, HelpersAllowed
<1>25. CASE suspend_ops_end
  BY <1>0, <1>25, StackAt, Stack, UpStep, SkippedStep DEF suspend_ops_end,
     with_begin, op, GoingDown, Steps, Resources, SameHelpers, HelpersAllowed
<1>26. CASE suspend_thaw_processes
  BY <1>26, StackAt, Stack, UpStep DEF suspend_thaw_processes, GoingDown, Steps,
     Resources, SameHelpers, HelpersAllowed
<1>27. CASE pm_post_suspend
  BY <1>27, StackAt, Stack, UpStep DEF pm_post_suspend, GoingDown, Steps,
     Resources, SameHelpers, HelpersAllowed
<1>28. CASE pm_restore_console
  BY <1>28, StackAt, Stack, UpStep DEF pm_restore_console, GoingDown, Steps,
     Resources, SameHelpers, HelpersAllowed
<1>29. CASE enter_state_unlock
  BY <1>29, StackAt, Stack, UpStep DEF enter_state_unlock, GoingDown, Steps,
     Resources, SameHelpers, HelpersAllowed
<1> QED
  BY <1>2, <1>3, <1>4, <1>5, <1>6, <1>7, <1>8, <1>9, <1>10, <1>11, <1>12, <1>13,
     <1>14, <1>15, <1>16, <1>17, <1>18, <1>19, <1>20, <1>21, <1>22, <1>23,
     <1>24, <1>25, <1>26, <1>27, <1>28, <1>29 DEF transition

-----------------------------------------------------------------------------
(* Helpers switched off and on.                                            *)
(* usermodehelper_disable, its wait or its timeout, usermodehelper_enable. *)
LEMMA DisableStep ==
  ASSUME SeqInv, UNCHANGED <<suspend_ops, other_mutex, slept>>,
         \/ usermodehelper_disable
         \/ usermodehelper_disable_wait
         \/ usermodehelper_enable
  PROVE  SeqInv' /\ LastGivenBack
<1> DEFINE o == suspend_ops
<1>1. CASE usermodehelper_disable
  <2>1. /\ pc = "umh" /\ pc' = "umh_wait" /\ held' = held /\ error' = error
        /\ usermodehelper_disabled' = TRUE
        /\ suspend_ops' = suspend_ops /\ other_mutex' = other_mutex /\ slept' = slept
    BY <1>1 DEF usermodehelper_disable, goto
  <2>2. stack("umh_wait", o) = stack("umh", o)
    BY StackAt
  <2>3. usermodehelper_disabled' = (pc' \notin HelpersAllowed)
    BY <2>1 DEF HelpersAllowed
  <2> QED
    BY <2>1, <2>2, <2>3 DEF SeqInv, RefusedMeansAwake, LastGivenBack, GoingDown, Steps
<1>2. CASE usermodehelper_disable_wait
  <2>1. CASE running_helpers = 0
    <3>1. stack("freeze", o) = Append(stack("umh_wait", o), "umh")
      BY StackAt DEF with_umh
    <3>2. down("umh_wait", "umh", "freeze") /\ Frame
      BY <1>2, <2>1 DEF usermodehelper_disable_wait, Frame
    <3> QED
      BY <3>1, <3>2, DownStep DEF GoingDown, Steps, Resources, SameHelpers, HelpersAllowed
  <2>2. CASE running_helpers # 0
    <3>1. /\ pc = "umh_wait" /\ pc' = "post" /\ held' = held \o <<>> /\ error' = TRUE
          /\ usermodehelper_disabled' = FALSE
          /\ suspend_ops' = suspend_ops /\ other_mutex' = other_mutex /\ slept' = slept
      BY <1>2, <2>2 DEF usermodehelper_disable_wait, fails, goto
    <3>2. held' = held /\ ~ slept
      BY <3>1 DEF SeqInv, GoingDown
    <3>3. stack("umh_wait", o) = stack("post", o)
      BY StackAt
    <3>4. usermodehelper_disabled' = (pc' \notin HelpersAllowed)
      BY <3>1 DEF HelpersAllowed
    <3> QED
      BY <3>1, <3>2, <3>3, <3>4 DEF SeqInv, RefusedMeansAwake, LastGivenBack, GoingDown, Steps
  <2> QED
    BY <2>1, <2>2
<1>3. CASE usermodehelper_enable
  <2>1. /\ pc = "enable" /\ pc' = "post" /\ held' = RemoveFirst(held, "umh") /\ error' = error
        /\ usermodehelper_disabled' = FALSE
        /\ suspend_ops' = suspend_ops /\ other_mutex' = other_mutex /\ slept' = slept
    BY <1>3 DEF usermodehelper_enable, up, give_back, goto
  <2>2. Level(stack("enable", o), stack("post", o), "umh")
    BY StackAt, Stack
  <2>3. held' = stack(pc', suspend_ops') /\ held' \in Seq(Resources)
    BY <2>1, <2>2, LevelBack DEF SeqInv, Level
  <2>4. LastGivenBack
    BY <2>1, <2>2, <2>3, LevelBack DEF LastGivenBack, SeqInv
  <2>5. usermodehelper_disabled' = (pc' \notin HelpersAllowed)
    BY <2>1 DEF HelpersAllowed
  <2> QED
    BY <2>1, <2>3, <2>4, <2>5 DEF SeqInv, RefusedMeansAwake, GoingDown, Steps
<1> QED
  BY <1>1, <1>2, <1>3

(* pm_suspend's beginning, registration, and others holding pm_mutex.      *)
LEMMA IdleStep ==
  ASSUME SeqInv, UNCHANGED usermodehelper_disabled,
         \/ suspend_set_ops
         \/ mutex_other
         \/ pm_suspend /\ UNCHANGED <<suspend_ops, other_mutex>>
  PROVE  SeqInv' /\ LastGivenBack
<1>1. CASE suspend_set_ops
  <2>1. stack("idle", suspend_ops) = <<>> /\ stack("idle", suspend_ops') = <<>>
    BY StackAt
  <2> QED
    BY <1>1, <2>1 DEF SeqInv, suspend_set_ops, RefusedMeansAwake, LastGivenBack, GoingDown
<1>2. CASE mutex_other
  BY <1>2 DEF SeqInv, mutex_other, RefusedMeansAwake, LastGivenBack
<1>3. CASE pm_suspend /\ UNCHANGED <<suspend_ops, other_mutex>>
  <2>1. CASE valid_state /\ ~ other_mutex
    <3>1. /\ pc = "idle" /\ pc' = "prepare" /\ held' = Append(held, "pm_mutex")
          /\ error' = FALSE /\ slept' = FALSE
          /\ UNCHANGED <<suspend_ops, other_mutex, usermodehelper_disabled>>
      BY <1>3, <2>1 DEF pm_suspend, take, goto
    <3>2. stack("prepare", suspend_ops) = Append(stack("idle", suspend_ops), "pm_mutex")
      BY StackAt DEF with_mutex
    <3>3. held' = stack(pc', suspend_ops') /\ held' \in Seq(Resources)
      BY <3>1, <3>2 DEF SeqInv, Resources
    <3>4. LastGivenBack
      BY <3>1, TakeLast DEF LastGivenBack, SeqInv, Resources
    <3> QED
      BY <3>1, <3>3, <3>4 DEF SeqInv, RefusedMeansAwake, GoingDown, HelpersAllowed, Steps
  <2>2. CASE ~ (valid_state /\ ~ other_mutex)
    <3>1. /\ pc = "idle" /\ pc' = pc /\ held' = held /\ error' = TRUE /\ slept' = FALSE
          /\ UNCHANGED <<suspend_ops, other_mutex, usermodehelper_disabled>>
      BY <1>3, <2>2 DEF pm_suspend
    <3> QED
      BY <3>1 DEF SeqInv, RefusedMeansAwake, LastGivenBack, GoingDown
  <2> QED
    BY <2>1, <2>2
<1> QED
  BY <1>1, <1>2, <1>3

-----------------------------------------------------------------------------
(* The calls of helpers.  A call counted in running_helpers has not left   *)
(* call_usermodehelper_exec; a work that somebody waits for has its caller *)
(* waiting, and none waits where tasks may be frozen.                      *)
Counted == {c \in Calls : cpc[c] # "idle"}
Waited == HelpersAllowed \cup {"umh_wait"}

HelpTypes ==
  /\ running_helpers \in Nat
  /\ cpc \in [Calls -> {"idle", "locked", "waiting", "unlock"}]
  /\ mode \in [Calls -> {"no_wait", "exec", "proc"}]
  /\ sub \in [Calls -> {"none", "queued", "forked", "user"}]
  /\ complete \subseteq Calls /\ khelper_wq \in Seq(Calls)
  /\ flags \in [Calls -> SUBSET khelper_flags]

CallInv ==
  \A c \in Calls :
    /\ sub[c] \in {"queued", "forked"} /\ mode[c] # "no_wait"
         => cpc[c] = "waiting" /\ c \notin complete
    /\ cpc[c] = "locked" => sub[c] = "none" /\ c \notin complete
    /\ cpc[c] = "waiting" => pc \in Waited

QueueInv ==
  /\ \A i \in 1 .. Len(khelper_wq) : sub[khelper_wq[i]] = "queued"
  /\ \A i, j \in 1 .. Len(khelper_wq) : khelper_wq[i] = khelper_wq[j] => i = j

HelpInv ==
  /\ HelpTypes
  /\ running_helpers = Cardinality(Counted)
  /\ CallInv
  /\ QueueInv

(* Finitely many calls are counted.                                        *)
LEMMA CountedFinite == IsFiniteSet(Counted)
BY CallsFinite, FS_Subset DEF Counted

(* The transition looks at the helpers only in usermodehelper_disable.     *)
LEMMA TransitionNotWaiting ==
  ASSUME transition
  PROVE  pc # "umh_wait"
BY DEF transition, suspend_prepare, pm_notifier_call_chain, suspend_freeze_processes,
   suspend_ops_begin, suspend_console, pm_restrict_gfp_mask, dpm_suspend_start,
   suspend_ops_recover, suspend_ops_prepare, dpm_suspend_noirq, prepare_late,
   disable_nonboot_cpus, arch_suspend_disable_irqs, sysdev_suspend, suspend_ops_enter,
   sysdev_resume, arch_suspend_enable_irqs, enable_nonboot_cpus, suspend_ops_wake,
   dpm_resume_noirq, suspend_ops_finish, dpm_resume_end, pm_restore_gfp_mask,
   resume_console, suspend_ops_end, suspend_thaw_processes, pm_post_suspend,
   pm_restore_console, enter_state_unlock, down, fails, refused, skipped, up

(* A step of the transition leaves the helpers consistent: it goes on from *)
(* the wait of usermodehelper_disable only when no call is counted.        *)
LEMMA MainKeepsHelpers ==
  ASSUME SeqInv, SeqInv', HelpInv, UNCHANGED <<running_helpers, umhVars>>,
         pc \in Waited => pc' \in Waited \/ running_helpers = 0
  PROVE  HelpInv'
<1>0. UNCHANGED <<running_helpers, cpc, mode, sub, complete, khelper_wq, flags>>
  BY DEF umhVars
<1>1. HelpTypes' /\ QueueInv' /\ Counted' = Counted
  BY <1>0 DEF HelpInv, HelpTypes, QueueInv, Counted
<1>2. CallInv'
  <2>1. SUFFICES ASSUME NEW c \in Calls, cpc[c] = "waiting" PROVE pc' \in Waited
    BY <1>0 DEF CallInv, HelpInv
  <2>2. Counted # {}
    BY <2>1 DEF Counted
  <2>3. running_helpers # 0
    BY <2>2, CountedFinite, FS_EmptySet DEF HelpInv
  <2> QED
    BY <2>1, <2>3 DEF HelpInv, CallInv
<1> QED
  BY <1>0, <1>1, <1>2 DEF HelpInv

(* One call's steps change nothing of another's.                           *)
LEMMA HelperStep ==
  ASSUME SeqInv, HelpInv, NEW c \in Calls,
         (\E m \in Modes : helper_lock(c, m)) \/ callStep(c) \/ processStep(c),
         UNCHANGED <<seqVars, usermodehelper_disabled>>
  PROVE  HelpInv'
<1>0. HelpTypes /\ running_helpers = Cardinality(Counted) /\ CallInv /\ QueueInv
      /\ IsFiniteSet(Counted) /\ Cardinality(Counted) \in Nat
  BY CountedFinite, FS_CardinalityType DEF HelpInv
<1>00. pc' = pc
  BY DEF seqVars
<1>1. CASE \E m \in Modes : helper_lock(c, m)
  <2>1. PICK m \in Modes : helper_lock(c, m)
    BY <1>1
  <2>2. m \in {"no_wait", "exec", "proc"}
    BY ModesAssumption
  <2>3. HelpTypes'
    BY <1>0, <2>1, <2>2 DEF helper_lock, HelpTypes
  <2>4. Counted' = Counted \cup {c} /\ c \notin Counted
    BY <1>0, <2>1 DEF helper_lock, HelpTypes, Counted
  <2>5. running_helpers' = Cardinality(Counted')
    BY <1>0, <2>1, <2>4, FS_AddElement DEF helper_lock
  <2>6. CallInv'
    BY <1>0, <1>00, <2>1, <2>2 DEF helper_lock, HelpTypes, CallInv
  <2>7. QueueInv'
    BY <1>0, <2>1 DEF helper_lock, QueueInv
  <2> QED
    BY <2>3, <2>5, <2>6, <2>7 DEF HelpInv
<1>2. CASE call_usermodehelper_refused(c) \/ wait_for_completion(c)
  <2> USE DEF call_usermodehelper_refused, wait_for_completion
  <2>1. HelpTypes'
    BY <1>0, <1>2 DEF HelpTypes
  <2>2. Counted' = Counted /\ running_helpers' = running_helpers
    BY <1>0, <1>2 DEF HelpTypes, Counted
  <2>3. CallInv'
    BY <1>0, <1>00, <1>2 DEF HelpTypes, CallInv
  <2>4. QueueInv'
    BY <1>0, <1>2 DEF QueueInv
  <2> QED
    BY <1>0, <2>1, <2>2, <2>3, <2>4 DEF HelpInv
<1>3. CASE call_usermodehelper_queue(c)
  <2>1. HelpTypes'
    BY <1>0, <1>3 DEF HelpTypes, call_usermodehelper_queue
  <2>2. Counted' = Counted /\ running_helpers' = running_helpers
    BY <1>0, <1>3 DEF HelpTypes, Counted, call_usermodehelper_queue
  <2>3. pc \in Waited
    BY <1>3 DEF call_usermodehelper_queue, SeqInv, Waited
  <2>4. CallInv'
    BY <1>0, <1>00, <1>3, <2>3 DEF HelpTypes, CallInv, call_usermodehelper_queue
  <2>5. sub[c] = "none"
    BY <1>0, <1>3 DEF CallInv, call_usermodehelper_queue
  <2>6. QueueInv'
    <3> DEFINE q == khelper_wq'
    <3>1. /\ Len(q) = Len(khelper_wq) + 1 /\ q[Len(khelper_wq) + 1] = c
          /\ \A i \in 1 .. Len(khelper_wq) : q[i] = khelper_wq[i] /\ q[i] \in Calls /\ q[i] # c
          /\ Len(khelper_wq) \in Nat
      BY <1>0, <1>3, <2>5 DEF HelpTypes, QueueInv, call_usermodehelper_queue
    <3>2. sub' = [sub EXCEPT ![c] = "queued"]
      BY <1>3 DEF call_usermodehelper_queue
    <3> HIDE DEF q
    <3>3. \A i \in 1 .. Len(q) : sub'[q[i]] = "queued"
      BY <1>0, <3>1, <3>2 DEF HelpTypes, QueueInv
    <3>4. \A i, j \in 1 .. Len(q) : q[i] = q[j] => i = j
      BY <1>0, <3>1 DEF QueueInv
    <3> QED
      BY <3>3, <3>4 DEF QueueInv, q
  <2> QED
    BY <1>0, <2>1, <2>2, <2>4, <2>6 DEF HelpInv
<1>4. CASE helper_unlock(c)
  <2>1. Counted' = Counted \ {c} /\ c \in Counted
    BY <1>0, <1>4 DEF helper_unlock, HelpTypes, Counted
  <2>2. /\ Cardinality(Counted') = Cardinality(Counted) - 1
        /\ Cardinality(Counted') \in Nat
    BY <1>0, <2>1, FS_RemoveElement, FS_CardinalityType, FS_Subset
  <2>3. running_helpers' = Cardinality(Counted')
    BY <1>0, <1>4, <2>2 DEF helper_unlock
  <2>4. HelpTypes'
    BY <1>0, <1>4, <2>2, <2>3 DEF HelpTypes, helper_unlock
  <2>5. CallInv'
    BY <1>0, <1>00, <1>4 DEF HelpTypes, CallInv, helper_unlock
  <2>6. QueueInv'
    BY <1>0, <1>4 DEF QueueInv, helper_unlock
  <2> QED
    BY <2>3, <2>4, <2>5, <2>6 DEF HelpInv
<1>5. CASE processStep(c)
  <2>1. /\ sub[c] \in {"forked", "user"}
        /\ \E v \in {"user", "none"} : sub' = [sub EXCEPT ![c] = v]
        /\ \E f \in SUBSET khelper_flags : flags' = [flags EXCEPT ![c] = f]
        /\ complete' \in {complete, complete \cup {c}}
        /\ UNCHANGED <<running_helpers, cpc, mode, khelper_wq>>
    <3>1. CASE call_usermodehelper_execve(c)
      BY <1>0, <3>1 DEF call_usermodehelper_execve, complete_if, do_execve_flags, HelpTypes
    <3>2. CASE wait_for_helper(c)
      BY <1>0, <3>2 DEF wait_for_helper, user_runs, complete_if, HelpTypes
    <3> QED
      BY <1>5, <3>1, <3>2 DEF processStep
  <2>2. HelpTypes'
    BY <1>0, <2>1 DEF HelpTypes
  <2>3. Counted' = Counted
    BY <2>1 DEF Counted
  <2>4. CallInv'
    BY <1>0, <1>00, <2>1 DEF HelpTypes, CallInv
  <2>5. QueueInv'
    <3>1. \A i \in 1 .. Len(khelper_wq) : khelper_wq[i] \in Calls /\ khelper_wq[i] # c
      BY <1>0, <2>1 DEF HelpTypes, QueueInv
    <3> QED
      BY <1>0, <2>1, <3>1 DEF HelpTypes, QueueInv
  <2> QED
    BY <1>0, <2>1, <2>2, <2>3, <2>4, <2>5 DEF HelpInv
<1> QED
  BY <1>1, <1>2, <1>3, <1>4, <1>5 DEF callStep

(* khelper takes the first work and forks, or fails to.                    *)
LEMMA WorkStep ==
  ASSUME SeqInv, HelpInv, call_usermodehelper_work,
         UNCHANGED <<seqVars, usermodehelper_disabled>>
  PROVE  HelpInv'
<1> DEFINE c == Head(khelper_wq)
           q == Tail(khelper_wq)
<1>0. HelpTypes /\ running_helpers = Cardinality(Counted) /\ CallInv /\ QueueInv /\ pc' = pc
  BY DEF HelpInv, seqVars
<1>1. /\ c \in Calls /\ c = khelper_wq[1] /\ Len(khelper_wq) \in Nat \ {0}
      /\ q \in Seq(Calls) /\ Len(q) = Len(khelper_wq) - 1
      /\ \A i \in 1 .. Len(q) : q[i] = khelper_wq[i + 1]
  BY <1>0 DEF HelpTypes, call_usermodehelper_work
<1> HIDE DEF c, q
<1>2. /\ \/ /\ sub' = [sub EXCEPT ![c] = "forked"]
            /\ flags' = [flags EXCEPT ![c] = khelper_flags]
            /\ complete' = complete
         \/ /\ sub' = [sub EXCEPT ![c] = "none"]
            /\ complete' \in {complete, complete \cup {c}}
            /\ flags' = flags
      /\ khelper_wq' = q
      /\ UNCHANGED <<running_helpers, cpc, mode>>
  BY DEF call_usermodehelper_work, complete_if, copy_flags, c, q
<1>3. sub[c] = "queued"
  BY <1>0, <1>1 DEF QueueInv
<1>4. HelpTypes'
  BY <1>0, <1>1, <1>2 DEF HelpTypes
<1>5. Counted' = Counted
  BY <1>2 DEF Counted
<1>6. CallInv'
  BY <1>0, <1>1, <1>2, <1>3 DEF HelpTypes, CallInv
<1>7. QueueInv'
  <2>1. \A i \in 1 .. Len(q) : q[i] \in Calls /\ q[i] # c /\ sub[q[i]] = "queued"
    BY <1>0, <1>1 DEF HelpTypes, QueueInv
  <2>2. \A i \in 1 .. Len(q) : sub'[q[i]] = "queued"
    BY <1>0, <1>2, <2>1 DEF HelpTypes
  <2>3. \A i, j \in 1 .. Len(q) : q[i] = q[j] => i = j
    BY <1>0, <1>1 DEF QueueInv
  <2> QED
    BY <1>2, <2>2, <2>3 DEF QueueInv
<1> QED
  BY <1>0, <1>2, <1>4, <1>5, <1>6, <1>7 DEF HelpInv

-----------------------------------------------------------------------------
(* The inductive invariant: the stack of the transition and the helpers.   *)
SuspendInv == SeqInv /\ HelpInv

(* It holds at first.                                                      *)
LEMMA InitSuspend == Init => SuspendInv
<1> SUFFICES ASSUME Init PROVE SuspendInv
  OBVIOUS
<1> USE DEF Init
<1>1. SeqInv
  <2>1. usermodehelper_disabled = (pc \notin HelpersAllowed)
    BY DEF HelpersAllowed
  <2>2. held = stack(pc, suspend_ops) /\ held \in Seq(Resources)
    BY StackAt
  <2> QED
    BY <2>1, <2>2 DEF SeqInv, Steps, RefusedMeansAwake, GoingDown
<1>2. Counted = {} /\ Cardinality({}) = 0
  BY FS_EmptySet DEF Counted
<1>3. HelpTypes
  BY DEF HelpTypes
<1>4. CallInv /\ QueueInv
  BY DEF CallInv, QueueInv
<1> QED
  BY <1>1, <1>2, <1>3, <1>4 DEF SuspendInv, HelpInv

(* Every step keeps it, and gives back only what was taken last.           *)
LEMMA NextSuspend ==
  ASSUME SuspendInv, [Next]_vars
  PROVE  SuspendInv' /\ LastGivenBack
<1>0. SeqInv /\ HelpInv
  BY DEF SuspendInv
<1>1. CASE transition /\ UNCHANGED <<suspend_ops, other_mutex, usermodehelper_disabled,
                                     running_helpers, umhVars>>
  <2>1. SeqInv' /\ LastGivenBack
    BY <1>0, <1>1, TransitionStep
  <2>2. pc # "umh_wait" /\ usermodehelper_disabled' = usermodehelper_disabled
    BY <1>1, TransitionNotWaiting
  <2>3. pc \in Waited => pc' \in Waited
    BY <1>0, <2>1, <2>2 DEF SeqInv, Waited
  <2> QED
    BY <1>0, <1>1, <2>1, <2>3, MainKeepsHelpers DEF SuspendInv
<1>2. CASE /\ \/ usermodehelper_disable \/ usermodehelper_disable_wait
              \/ usermodehelper_enable
           /\ UNCHANGED <<suspend_ops, other_mutex, slept, running_helpers, umhVars>>
  <2>1. SeqInv' /\ LastGivenBack
    BY <1>0, <1>2, DisableStep
  <2>2. pc' \in Waited \/ running_helpers = 0
    BY <1>2 DEF usermodehelper_disable, usermodehelper_disable_wait, usermodehelper_enable,
       down, fails, up, goto, Waited, HelpersAllowed
  <2> QED
    BY <1>0, <1>2, <2>1, <2>2, MainKeepsHelpers DEF SuspendInv
<1>3. CASE /\ \/ suspend_set_ops \/ mutex_other
              \/ pm_suspend /\ UNCHANGED <<suspend_ops, other_mutex>>
           /\ UNCHANGED <<usermodehelper_disabled, running_helpers, umhVars>>
  <2>1. SeqInv' /\ LastGivenBack
    BY <1>0, <1>3, IdleStep
  <2>2. pc' = pc \/ pc' = "prepare"
    BY <1>3 DEF suspend_set_ops, mutex_other, pm_suspend, goto
  <2>3. pc \in Waited => pc' \in Waited
    BY <2>2 DEF Waited, HelpersAllowed
  <2> QED
    BY <1>0, <1>3, <2>1, <2>3, MainKeepsHelpers DEF SuspendInv
<1>4. CASE /\ \/ \E c \in Calls : (\E m \in Modes : helper_lock(c, m)) \/ callStep(c) \/ processStep(c)
              \/ call_usermodehelper_work
           /\ UNCHANGED <<seqVars, usermodehelper_disabled>>
  <2>1. HelpInv'
    BY <1>0, <1>4, HelperStep, WorkStep
  <2>2. SeqInv' /\ LastGivenBack
    BY <1>0, <1>4 DEF SeqInv, seqVars, RefusedMeansAwake, LastGivenBack
  <2> QED
    BY <2>1, <2>2 DEF SuspendInv
<1>5. CASE UNCHANGED vars
  <2>1. SeqInv' /\ LastGivenBack
    BY <1>0, <1>5 DEF vars, seqVars, SeqInv, RefusedMeansAwake, LastGivenBack
  <2>2. UNCHANGED <<running_helpers, umhVars>> /\ pc' = pc
    BY <1>5 DEF vars, seqVars
  <2> QED
    BY <1>0, <2>1, <2>2, MainKeepsHelpers DEF SuspendInv
<1>6. CASE mainStep
  BY <1>1, <1>2, <1>6 DEF mainStep
<1>7. CASE /\ suspend_set_ops \/ mutex_other
           /\ UNCHANGED <<usermodehelper_disabled, running_helpers, umhVars>>
  BY <1>3, <1>7
<1>8. CASE /\ pm_suspend
           /\ UNCHANGED <<suspend_ops, other_mutex, usermodehelper_disabled,
                          running_helpers, umhVars>>
  BY <1>3, <1>8
<1> QED
  BY <1>4, <1>5, <1>6, <1>7, <1>8 DEF Next

(* The invariant is inductive.                                             *)
LEMMA SuspendInvariant == Spec => []SuspendInv
<1>1. Init => SuspendInv
  BY InitSuspend
<1>2. SuspendInv /\ [Next]_vars => SuspendInv'
  BY NextSuspend
<1> QED
  BY <1>1, <1>2, PTL DEF Spec

(* Everything but the optional things is held where the platform sleeps.   *)
LEMMA FullyDown ==
  ASSUME NEW o
  PROVE  Resources \ {"begin", "platform", "late"} \subseteq Range(with_sysdev(o))
<1>1. /\ with_mutex(o) \in Seq(Resources) /\ with_console(o) \in Seq(Resources)
      /\ with_notified(o) \in Seq(Resources) /\ with_umh(o) \in Seq(Resources)
      /\ with_tasks(o) \in Seq(Resources) /\ with_begin(o) \in Seq(Resources)
      /\ with_printk(o) \in Seq(Resources) /\ with_gfp(o) \in Seq(Resources)
      /\ with_devices(o) \in Seq(Resources) /\ with_platform(o) \in Seq(Resources)
      /\ with_noirq(o) \in Seq(Resources) /\ with_late(o) \in Seq(Resources)
      /\ with_cpus(o) \in Seq(Resources) /\ with_irqs(o) \in Seq(Resources)
  BY Stack DEF Level
<1>2. Range(with_mutex(o)) = Range(<<>>) \cup {"pm_mutex"}
  <2>1. <<>> \in Seq(Resources) /\ "pm_mutex" \in Resources
    BY DEF Resources
  <2> QED
    BY <2>1, TakeLast DEF with_mutex
<1>3. Range(with_console(o)) = Range(with_mutex(o)) \cup {"console"}
  BY <1>1, TakeLast DEF with_console, Resources
<1>4. Range(with_notified(o)) = Range(with_console(o)) \cup {"notified"}
  BY <1>1, TakeLast DEF with_notified, Resources
<1>5. Range(with_umh(o)) = Range(with_notified(o)) \cup {"umh"}
  BY <1>1, TakeLast DEF with_umh, Resources
<1>6. Range(with_tasks(o)) = Range(with_umh(o)) \cup {"tasks"}
  BY <1>1, TakeLast DEF with_tasks, Resources
<1>7. Range(with_tasks(o)) \subseteq Range(with_begin(o))
  BY Stack DEF Level
<1>8. Range(with_printk(o)) = Range(with_begin(o)) \cup {"printk"}
  BY <1>1, TakeLast DEF with_printk, Resources
<1>9. Range(with_gfp(o)) = Range(with_printk(o)) \cup {"gfp"}
  BY <1>1, TakeLast DEF with_gfp, Resources
<1>10. Range(with_devices(o)) = Range(with_gfp(o)) \cup {"devices"}
  BY <1>1, TakeLast DEF with_devices, Resources
<1>11. Range(with_devices(o)) \subseteq Range(with_platform(o))
  BY Stack DEF Level
<1>12. Range(with_noirq(o)) = Range(with_platform(o)) \cup {"noirq"}
  BY <1>1, TakeLast DEF with_noirq, Resources
<1>13. Range(with_noirq(o)) \subseteq Range(with_late(o))
  BY Stack DEF Level
<1>14. Range(with_cpus(o)) = Range(with_late(o)) \cup {"cpus"}
  BY <1>1, TakeLast DEF with_cpus, Resources
<1>15. Range(with_irqs(o)) = Range(with_cpus(o)) \cup {"irqs"}
  BY <1>1, TakeLast DEF with_irqs, Resources
<1>16. Range(with_sysdev(o)) = Range(with_irqs(o)) \cup {"sysdev"}
  BY <1>1, TakeLast DEF with_sysdev, Resources
<1> QED
  BY <1>2, <1>3, <1>4, <1>5, <1>6, <1>7, <1>8, <1>9, <1>10, <1>11, <1>12, <1>13,
     <1>14, <1>15, <1>16 DEF Resources

(* On every platform, whatever step fails, pm_suspend gives back all that  *)
(* it took, enters sleep only with everything down, and reports a failure  *)
(* only if the platform has not slept.                                     *)
THEOREM TransitionIsSound == Spec => []TransitionSound
<1>1. SuspendInv => TransitionSound
  <2> SUFFICES ASSUME SeqInv, HelpInv PROVE TransitionSound
    BY DEF SuspendInv
  <2>1. TypeOK
    <3>1. Range(held) \subseteq Resources
      BY DEF SeqInv, Range
    <3>2. Range(khelper_wq) \subseteq Calls
      BY DEF HelpInv, HelpTypes, Range
    <3>3. usermodehelper_disabled \in BOOLEAN
      BY DEF SeqInv
    <3> QED
      BY <3>1, <3>2, <3>3 DEF TypeOK, SeqInv, HelpInv, HelpTypes
  <2>2. Unwound
    BY StackAt DEF SeqInv, Unwound, HelpersAllowed
  <2>3. EnteredFullyDown
    BY StackAt, FullyDown DEF SeqInv, EnteredFullyDown
  <2>4. RefusedMeansAwake
    BY DEF SeqInv
  <2> QED
    BY <2>1, <2>2, <2>3, <2>4 DEF TransitionSound
<1> QED
  BY <1>1, SuspendInvariant, PTL

(* Nothing is given back out of order, on any error path of any platform.  *)
THEOREM ReverseOrder == Spec => UndoneInReverse
<1>1. SuspendInv /\ [Next]_vars
        => [Range(held') # Range(held) /\ Len(held') < Len(held)
              => held' = SubSeq(held, 1, Len(held) - 1)]_vars
  BY NextSuspend DEF LastGivenBack
<1> QED
  BY <1>1, SuspendInvariant, PTL DEF Spec, UndoneInReverse

(* Tasks are not frozen where a call may still wait for its helper.        *)
LEMMA WaitedNotFrozen ==
  ASSUME SeqInv, pc \in Waited
  PROVE  ~ frozen
<1>1. held \in {<<>>, with_mutex(suspend_ops), with_console(suspend_ops),
                with_notified(suspend_ops)}
  BY StackAt DEF SeqInv, Waited, HelpersAllowed
<1>2. \A y \in Range(with_mutex(suspend_ops)) : rank[y] \in Nat /\ rank[y] <= 1
  BY Stack, LevelRank, RankOrder
<1>3. \A y \in Range(with_console(suspend_ops)) : rank[y] \in Nat /\ rank[y] <= 2
  BY Stack, LevelRank, RankOrder
<1>4. \A y \in Range(with_notified(suspend_ops)) : rank[y] \in Nat /\ rank[y] <= 3
  BY Stack, LevelRank, RankOrder
<1>5. Range(<<>>) = {}
  BY DEF Range
<1> QED
  BY <1>1, <1>2, <1>3, <1>4, <1>5, RankOrder DEF frozen

(* However the calls of helpers and the transition interleave, a helper    *)
(* that somebody waits for starts only while tasks run.                    *)
THEOREM NoHelperWaitedForStartsFrozen == Spec => NoWaitedHelperStarts
<1>1. SuspendInv /\ [Next]_vars
        => [\A c \in Calls : sub[c] # "user" /\ sub'[c] = "user" /\ mode[c] # "no_wait"
              => ~ frozen]_vars
  <2> SUFFICES ASSUME SeqInv, HelpInv, [Next]_vars, NEW c \in Calls,
                      sub[c] # "user", sub'[c] = "user", mode[c] # "no_wait"
               PROVE  ~ frozen
    BY DEF SuspendInv
  <2>0. HelpTypes /\ CallInv
    BY DEF HelpInv
  <2>1. sub[c] = "forked"
    <3>1. sub' # sub
      OBVIOUS
    <3>2. PICK d \in Calls : \/ \E m \in Modes : helper_lock(d, m)
                             \/ callStep(d) \/ processStep(d) \/ call_usermodehelper_work
      BY <3>1 DEF Next, mainStep, vars, umhVars
    <3>3. CASE call_usermodehelper_work
      BY <2>0, <3>3 DEF call_usermodehelper_work, HelpTypes
    <3>4. CASE processStep(d)
      BY <2>0, <3>4 DEF processStep, call_usermodehelper_execve, wait_for_helper, HelpTypes
    <3>5. CASE callStep(d) \/ \E m \in Modes : helper_lock(d, m)
      BY <2>0, <3>5 DEF callStep, call_usermodehelper_refused, call_usermodehelper_queue,
         wait_for_completion, helper_unlock, helper_lock, HelpTypes
    <3> QED
      BY <3>2, <3>3, <3>4, <3>5
  <2>2. cpc[c] = "waiting"
    BY <2>0, <2>1 DEF CallInv
  <2> QED
    BY <2>0, <2>2, WaitedNotFrozen DEF CallInv
<1> QED
  BY <1>1, SuspendInvariant, PTL DEF Spec, NoWaitedHelperStarts
=============================================================================
