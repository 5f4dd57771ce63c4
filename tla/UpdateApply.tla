---------------------------- MODULE UpdateApply ----------------------------
(***************************************************************************)
(* max update --apply, --from and --stable: cli/src/update-apply.ts and    *)
(* the commands of cli/src/cli.ts around it.  A command moves a checkout   *)
(* to another commit in steps (git, npm, the daemon), and back to the      *)
(* backup when one of them throws.                                         *)
(*                                                                         *)
(* A commit is a release, or a test build cut from one.  A test build has  *)
(* the version of its release (shared/src/version.ts, testFields), so the  *)
(* two are told apart by the test id only.  One command runs at a time;    *)
(* a command refused for what the operator sees to himself (leftovers,     *)
(* active runs, the dev rig, Node's version) changes nothing and is left   *)
(* out.                                                                    *)
(***************************************************************************)
EXTENDS Naturals

CONSTANTS
    Releases,   \* versions of the published releases
    Bundles,    \* the test builds the operator has as files
    MaxCalls,   \* bound: commands
    MaxUpsets,  \* bound: how many upsets come, in any combination
    Upsets      \* "throw": a step throws; "kill": the command is killed;
                \* "stays": the daemon cannot be stopped; "dead", "late": it
                \* does not come up, or not in time

ASSUME UpdateAssumption ==
    /\ Releases \subseteq Nat \ {0}
    /\ \A b \in Bundles : b.base \in Releases /\ b.test # ""
    /\ MaxCalls \in Nat /\ MaxUpsets \in Nat
    /\ Upsets \subseteq {"throw", "kill", "stays", "dead", "late"}

VARIABLES
    tree,    \* the commit of the checkout, of its dependencies, of its build
             \* (dist, and dash for the dashboard) and of the installed skills
    refs,    \* refs/max/update-target, update-backup, stable and test-build
    daemon,  \* the build the daemon answers from, and one that is still on
             \* its way up after its start was given up on
    cli,     \* the command and the step it is at, or how it ended
    torn,    \* a command was cut short, and none has come to its end since
    stray,   \* a daemon outlived a stop, or a start that was given up on
    spent    \* commands and upsets so far

vars == <<tree, refs, daemon, cli, torn, stray, spent>>

Release(v) == [base |-> v, test |-> ""]
Commits    == {Release(v) : v \in Releases} \cup Bundles
None       == [base |-> 0, test |-> ""]

(* The version that stamps and /health report *)
Version(c) == c.base

IsTest(c) == c.test # ""

NoCommand == [cmd |-> "none", at |-> "end", undo |-> FALSE, was |-> FALSE,
              from |-> None, goal |-> None, how |-> "none"]

Init ==
    /\ \E v \in Releases : tree = [head |-> Release(v), deps |-> Release(v),
                                   dist |-> Release(v), dash |-> Release(v),
                                   skills |-> Release(v)]
    /\ refs = [target |-> None, backup |-> None, stable |-> None, test |-> None]
    /\ \E code \in {None, tree.dist} : daemon = [code |-> code, late |-> None]
    /\ cli = NoCommand
    /\ torn = FALSE
    /\ stray = FALSE
    /\ spent = [calls |-> 0, upsets |-> 0]

Upset(kind) ==
    /\ kind \in Upsets
    /\ spent.upsets < MaxUpsets
    /\ spent' = [spent EXCEPT !.upsets = @ + 1]

---------------------------------------------------------------------------
(* Commands *)

(* executeUpdateApply: which step comes after which, and in its rollback   *)
Forward ==
    [save  |-> "look",  look  |-> "stop",   stop   |-> "backup", backup |-> "reset",
     reset |-> "npm",   npm   |-> "clean",  clean  |-> "build",  build  |-> "stamps",
     stamps |-> "skills", skills |-> "start", start |-> "health", health |-> "record",
     record |-> "end"]

(* Mutant: the skills stay those of the version that failed. *)
UndoBuild ==
    [stop  |-> "restore", restore |-> "npm", npm |-> "clean", clean |-> "build",
     build |-> "start", skills |-> "start", start |-> "end"]

Undo ==
    [stop  |-> "restore", restore |-> "npm", npm |-> "clean", clean |-> "build",
     build |-> "skills", skills |-> "start", start |-> "end"]

(* The target is fetched.  A dry run ends here.                            *)
Begin(cmd, goal, first) ==
    /\ cli.cmd = "none"
    /\ tree.dist # None /\ tree.deps # None
    /\ spent.calls < MaxCalls
    /\ spent' = [spent EXCEPT !.calls = @ + 1]
    /\ refs' = [refs EXCEPT !.target = goal]
    /\ cli' = [NoCommand EXCEPT !.cmd = cmd, !.at = first,
                                !.from = tree.head, !.goal = goal]
    /\ UNCHANGED <<tree, daemon, torn, stray>>

DryRun(goal) ==
    /\ cli.cmd = "none"
    /\ tree.dist # None /\ tree.deps # None
    /\ refs.target # goal
    /\ refs' = [refs EXCEPT !.target = goal]
    /\ UNCHANGED <<tree, daemon, cli, torn, stray, spent>>

(* assessUpdateApply: from a release to a newer one *)
CanApply(goal) ==
    ~IsTest(tree.head) /\ ~IsTest(goal) /\ Version(goal) > Version(tree.head)

(* assessUpdateFrom, and the bundle's base is the version of the checkout  *)
CanInstall(goal) ==
    /\ IsTest(goal) /\ Version(goal) = Version(tree.head)
    /\ IsTest(tree.head) => refs.stable # None

(* Mutant: every departure saves the checkout it leaves. *)
SavesAlways == "save"

(* Only the departure from a release saves it.                             *)
Saves == IF IsTest(tree.head) THEN "look" ELSE "save"

ApplyCommand ==
    \E goal \in Commits : CanApply(goal) /\ (Begin("apply", goal, "look") \/ DryRun(goal))

FromCommand ==
    \E goal \in Commits : CanInstall(goal) /\ (Begin("from", goal, Saves) \/ DryRun(goal))

(* No look at what is checked out: the saved release is the target.        *)
StableCommand ==
    /\ refs.stable # None /\ ~IsTest(refs.stable)
    /\ Begin("stable", refs.stable, "look")

---------------------------------------------------------------------------
(* Steps *)

At(step) == cli.at = step
After    == IF cli.undo THEN Undo[cli.at] ELSE Forward[cli.at]
Goes     == cli' = [cli EXCEPT !.at = After]
Fine     == UNCHANGED spent

Save ==
    /\ At("save") /\ Goes /\ Fine
    /\ refs' = [refs EXCEPT !.stable = tree.head]
    /\ UNCHANGED <<tree, daemon, torn, stray>>

(* wasRunning *)
Look ==
    /\ At("look") /\ Fine
    /\ cli' = [cli EXCEPT !.at = After, !.was = (daemon.code # None)]
    /\ UNCHANGED <<tree, refs, daemon, torn, stray>>

(* A daemon that answers is stopped, or outlives it: cmdDownProd does not  *)
(* throw.                                                                  *)
Stop ==
    /\ At("stop") /\ Goes
    /\ \/ /\ Fine
          /\ daemon' = [daemon EXCEPT !.code = None]
          /\ stray' = (daemon.late # None)
       \/ /\ daemon.code # None
          /\ Upset("stays")
          /\ stray' = TRUE
          /\ UNCHANGED daemon
    /\ UNCHANGED <<tree, refs, torn>>

Backup ==
    /\ At("backup") /\ Goes /\ Fine
    /\ refs' = [refs EXCEPT !.backup = tree.head]
    /\ UNCHANGED <<tree, daemon, torn, stray>>

(* git reset --hard *)
Reset ==
    /\ At("reset") \/ At("restore")
    /\ Goes /\ Fine
    /\ tree' = [tree EXCEPT !.head = IF At("reset") THEN refs.target ELSE refs.backup]
    /\ UNCHANGED <<refs, daemon, torn, stray>>

(* npm ci; cleanBuildOutputs; install-skill.mjs *)
Npm ==
    /\ At("npm") /\ Goes /\ Fine
    /\ tree' = [tree EXCEPT !.deps = tree.head]
    /\ UNCHANGED <<refs, daemon, torn, stray>>

Clean ==
    /\ At("clean") /\ Goes /\ Fine
    /\ tree' = [tree EXCEPT !.dist = None, !.dash = None]
    /\ UNCHANGED <<refs, daemon, torn, stray>>

(* Shared code, daemon and CLI, then the dashboard.  Over leftovers a      *)
(* build may skip what it takes for built.                                 *)
Build ==
    /\ At("build") /\ Goes /\ Fine
    /\ \E dist \in {tree.head, tree.dist} \ {None}, dash \in {tree.head, tree.dash} \ {None} :
           tree' = [tree EXCEPT !.dist = dist, !.dash = dash]
    /\ UNCHANGED <<refs, daemon, torn, stray>>

Skills ==
    /\ At("skills") /\ Goes /\ Fine
    /\ tree' = [tree EXCEPT !.skills = tree.head]
    /\ UNCHANGED <<refs, daemon, torn, stray>>

(* assessApplyStamps: every part has the version, and the test id where    *)
(* one is expected ...                                                     *)
Stamped ==
    \A part \in {tree.dist, tree.dash} :
        /\ Version(part) = Version(cli.goal)
        /\ cli.cmd = "from" => part.test = cli.goal.test

(* ... and the dashboard carries the fingerprint of the shared build.  Two *)
(* commits need not differ in it, one commit never does.                   *)
MayMismatch == tree.dash # tree.dist

Stamps ==
    /\ At("stamps") /\ Stamped
    /\ Goes /\ Fine
    /\ UNCHANGED <<tree, refs, daemon, torn, stray>>

(* cmdUpProd: whatever holds the port keeps it, and a daemon that does not *)
(* come up in time is only reported.  A rollback starts only what ran.     *)
Start ==
    /\ At("start") /\ Goes
    /\ \/ /\ cli.undo /\ ~cli.was
          /\ Fine
          /\ UNCHANGED <<daemon, stray>>
       \/ /\ cli.undo => cli.was
          /\ Fine
          /\ daemon' = IF daemon.code = None THEN [daemon EXCEPT !.code = tree.dist] ELSE daemon
          /\ UNCHANGED stray
       \/ /\ cli.undo => cli.was
          /\ Upset("dead")
          /\ UNCHANGED <<daemon, stray>>
       \/ /\ cli.undo => cli.was
          /\ daemon = [code |-> None, late |-> None]
          /\ Upset("late")
          /\ daemon' = [daemon EXCEPT !.late = tree.dist]
          /\ stray' = TRUE
    /\ UNCHANGED <<tree, refs, torn>>

(* A daemon answers, with the version of the target.                       *)
Healthy == daemon.code # None /\ Version(daemon.code) = Version(cli.goal)

Health ==
    /\ At("health") /\ Healthy
    /\ Goes /\ Fine
    /\ UNCHANGED <<tree, refs, daemon, torn, stray>>

(* --from records the tip; the others record the release tag, which the    *)
(* commit stands for here.                                                 *)
Record ==
    /\ At("record") /\ Goes /\ Fine
    /\ refs' = IF cli.cmd = "from" THEN [refs EXCEPT !.test = tree.head] ELSE refs
    /\ UNCHANGED <<tree, daemon, torn, stray>>

(* The command ends: with the update, which for --stable forgets the test  *)
(* build, or with the rollback.                                            *)
End ==
    /\ cli.cmd # "none" /\ At("end")
    /\ cli' = [cli EXCEPT !.cmd = "none", !.how = IF cli.undo THEN "failed" ELSE "applied"]
    /\ refs' = IF cli.cmd = "stable" /\ ~cli.undo THEN [refs EXCEPT !.test = None] ELSE refs
    /\ torn' = FALSE
    /\ UNCHANGED <<tree, daemon, stray, spent>>

(* What a step may leave that was cut short: npm ci has removed the        *)
(* dependencies by then, the dashboard is not built yet, the skills are    *)
(* half copied.                                                            *)
Damaged == CASE At("npm")    -> [tree EXCEPT !.deps = None]
             [] At("build")  -> [tree EXCEPT !.dist = tree.head]
             [] At("skills") -> [tree EXCEPT !.skills = None]
             [] OTHER        -> tree

(* A step throws.  Before the try the command ends with it, in the try the *)
(* rollback begins, and a rollback that throws is the end.                 *)
Throws ==
    /\ ~At("end") /\ ~At("look")
    /\ \/ Upset("throw")
       \/ At("stamps") /\ (~Stamped \/ MayMismatch) /\ Fine
       \/ At("health") /\ ~Healthy /\ Fine
    /\ tree' \in {tree, Damaged}
    /\ cli' = IF cli.undo \/ At("save") \/ At("stop") \/ At("backup")
              THEN [cli EXCEPT !.cmd = "none", !.at = "end", !.how = "failed"]
              ELSE [cli EXCEPT !.at = "stop", !.undo = TRUE]
    /\ torn' = (torn \/ cli.undo)
    /\ UNCHANGED <<refs, daemon, stray>>

Kill ==
    /\ cli.cmd # "none"
    /\ Upset("kill")
    /\ cli' = [cli EXCEPT !.cmd = "none", !.at = "end", !.how = "killed"]
    /\ tree' \in {tree, Damaged}
    /\ torn' = TRUE
    /\ UNCHANGED <<refs, daemon, stray>>

---------------------------------------------------------------------------
(* Around the command *)

(* The daemon on its way up finds the port free, or ends.                  *)
Arrives ==
    /\ daemon.late # None
    /\ daemon' = [code |-> IF daemon.code = None THEN daemon.late ELSE daemon.code,
                  late |-> None]
    /\ UNCHANGED <<tree, refs, cli, torn, stray, spent>>

(* max up, between two commands *)
Up ==
    /\ cli.cmd = "none"
    /\ daemon.code = None
    /\ tree.dist # None /\ tree.deps # None
    /\ daemon' = [daemon EXCEPT !.code = tree.dist]
    /\ UNCHANGED <<tree, refs, cli, torn, stray, spent>>

Step ==
    \/ Save \/ Look \/ Stop \/ Backup \/ Reset \/ Npm \/ Clean \/ Build \/ Stamps
    \/ Skills \/ Start \/ Health \/ Record \/ End

Next ==
    \/ ApplyCommand \/ FromCommand \/ StableCommand
    \/ Step \/ Throws \/ Kill \/ Arrives \/ Up

Spec == Init /\ [][Next]_vars

---------------------------------------------------------------------------
(* Properties *)

(* "if any step fails, reset to the backup, rebuild, restore skills, and   *)
(* start again" (applyPlanLines): whatever step threw, in whatever command *)
(* of a row of them, also over what a killed one left, a command that has  *)
(* come to its end leaves checkout, dependencies, build and skills of one  *)
(* commit, the one it was to go to or the one it came from, and no daemon  *)
(* of another one but one that outlived a stop or a start.  One that       *)
(* reports success has a daemon that answers with the version of the       *)
(* checkout.  More is not asked of it: the daemon of a release, where it   *)
(* could not be stopped, passes for that of the test build cut from it.    *)
AllOrNothing ==
    cli.cmd = "none" /\ ~torn =>
        /\ tree.deps = tree.head /\ tree.skills = tree.head
        /\ tree.dist = tree.head /\ tree.dash = tree.head
        /\ cli.how = "failed" => tree.head = cli.from
        /\ cli.how = "applied" =>
               /\ tree.head = cli.goal
               /\ daemon.code # None /\ Version(daemon.code) = Version(tree.head)
        /\ stray \/ daemon.code \in {None, tree.head}

(* A test build has a way back: while it is checked out, at every step and *)
(* after every failure or kill, refs/max/stable is the published release   *)
(* it was cut from (configuration.md: "The first departure saves that      *)
(* release ... A later bundle keeps the saved ref").                       *)
WayBack == IsTest(tree.head) => refs.stable = Release(tree.head.base)
=============================================================================
