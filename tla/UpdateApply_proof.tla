------------------------- MODULE UpdateApply_proof -------------------------
(***************************************************************************)
(* Proofs about UpdateApply, for every set of releases and test builds,    *)
(* every number of commands and every mix of upsets.                       *)
(*                                                                         *)
(* Neither property is inductive.  The way back of a test build holds at   *)
(* every step because a command that is under way to or from one has had   *)
(* the release saved before (Saved).  That a command comes to its end with *)
(* everything of one commit is known step by step (Follows, Answers): the  *)
(* parts of the checkout fall in line in the order of the labels, whatever *)
(* an earlier command that was killed left of them.                        *)
(***************************************************************************)
EXTENDS UpdateApply, TLAPS

Opt == Commits \cup {None}

Labels == {"save", "look", "stop", "backup", "reset", "restore", "npm", "clean",
           "build", "stamps", "skills", "start", "health", "record", "end"}

(* The labels of the try: a step that throws there begins the rollback.    *)
Trying == {"reset", "npm", "clean", "build", "stamps", "skills", "start",
           "health", "record", "end"}

(* Where the command may be in its rollback                                *)
Undoing == {"stop", "restore", "npm", "clean", "build", "skills", "start", "end"}

Trees   == [head : Commits, deps : Opt, dist : Opt, dash : Opt, skills : Opt]
RefSets == [target : Opt, backup : Opt, stable : Opt, test : Opt]
Daemons == [code : Opt, late : Opt]
States  == [cmd : {"none", "apply", "from", "stable"}, at : Labels,
            undo : BOOLEAN, was : BOOLEAN, from : Opt, goal : Opt,
            how : {"none", "applied", "failed", "killed"}]

Types ==
    /\ tree \in Trees
    /\ refs \in RefSets
    /\ daemon \in Daemons
    /\ cli \in States
    /\ torn \in BOOLEAN /\ stray \in BOOLEAN

Running == cli.cmd # "none"

(* The labels a command passes *)
Path ==
    /\ ~Running => cli.at = "end"
    /\ Running /\ cli.undo => cli.at \in Undoing
    /\ Running /\ ~cli.undo => cli.at # "restore"
    /\ Running /\ cli.at = "save" => cli.cmd = "from" /\ ~IsTest(cli.from)

(* Where the command goes and what it comes back to *)
Course ==
    Running =>
        /\ cli.from \in Commits /\ cli.goal \in Commits
        /\ refs.target = cli.goal
        /\ cli.cmd # "from" => ~IsTest(cli.goal)
        /\ cli.cmd = "from" => cli.goal.base = cli.from.base
        /\ cli.undo \/ cli.at \in Trying => refs.backup = cli.from
        /\ ~cli.undo /\ cli.at \in {"save", "look", "stop", "backup", "reset"} =>
               tree.head = cli.from

(* The saved release, while a command is under way to or from a test build *)
Saved ==
    Running =>
        /\ cli.cmd = "from" /\ cli.at # "save" => refs.stable = Release(cli.goal.base)
        /\ IsTest(cli.from) => refs.stable = Release(cli.from.base)

Whole ==
    /\ tree.deps = tree.head /\ tree.skills = tree.head
    /\ tree.dist = tree.head /\ tree.dash = tree.head

(* How far dependencies, build and skills follow the checkout *)
Follows ==
    Running =>
        /\ ~cli.undo /\ cli.at \in {"save", "look", "stop", "backup", "reset"} /\ ~torn => Whole
        /\ cli.at \in {"clean", "build", "stamps", "skills", "start", "health", "record", "end"}
               => tree.deps = tree.head
        /\ cli.at = "build" => tree.dist = None /\ tree.dash = None
        /\ cli.at \in {"stamps", "skills", "start", "health", "record", "end"}
               => tree.dist = tree.head /\ tree.dash = tree.head
        /\ cli.at \in {"start", "health", "record", "end"} => tree.skills = tree.head
        /\ cli.at \in {"npm", "clean", "build", "stamps", "skills", "start", "health",
                       "record", "end"}
               => tree.head = IF cli.undo THEN cli.from ELSE cli.goal

(* Which daemon answers *)
Answers ==
    /\ ~stray => daemon.late = None
    /\ Running =>
        /\ ~cli.undo /\ cli.at \in {"save", "look", "stop"} /\ ~torn
               => stray \/ daemon.code \in {None, tree.head}
        /\ cli.at \in {"backup", "reset", "restore", "npm", "clean", "build", "stamps",
                       "skills", "start"}
               => stray \/ daemon.code = None
        /\ cli.at \in {"health", "record", "end"} => stray \/ daemon.code \in {None, tree.head}
        /\ ~cli.undo /\ cli.at \in {"record", "end"}
               => daemon.code # None /\ Version(daemon.code) = Version(cli.goal)

IInv == Types /\ Path /\ Course /\ Saved /\ Follows /\ Answers /\ WayBack /\ AllOrNothing

-----------------------------------------------------------------------------
(* Commits *)
LEMMA NoneIsNoCommit == None \notin Commits
<1>1. \A b \in Bundles : b.test # ""
  BY UpdateAssumption
<1>2. \A v \in Releases : v # 0
  BY UpdateAssumption
<1> QED BY <1>1, <1>2 DEF None, Commits, Release

LEMMA ReleaseIsItself ==
    ASSUME NEW c \in Commits, ~IsTest(c)
    PROVE  c = Release(c.base)
<1>1. \A b \in Bundles : b.test # ""
  BY UpdateAssumption
<1>2. c \notin Bundles
  BY <1>1 DEF IsTest
<1>3. PICK v \in Releases : c = Release(v)
  BY <1>2 DEF Commits
<1>4. Release(v).base = v
  BY DEF Release
<1> QED BY <1>3, <1>4

-----------------------------------------------------------------------------
(* A step of the command *)

(* The command as it is but for its label *)
Advanced ==
    /\ cli' \in States
    /\ cli'.at = After
    /\ cli'.cmd = cli.cmd /\ cli'.undo = cli.undo
    /\ cli'.from = cli.from /\ cli'.goal = cli.goal

(* The labels a step leads to *)
LEMMA NextLabel ==
    ASSUME IInv, Running, ~At("end")
    PROVE  /\ After \in Labels
           /\ At("save")    => ~cli.undo /\ After = "look"
           /\ At("look")    => ~cli.undo /\ After = "stop"
           /\ At("stop")    => After = IF cli.undo THEN "restore" ELSE "backup"
           /\ At("backup")  => ~cli.undo /\ After = "reset"
           /\ At("reset")   => ~cli.undo /\ After = "npm"
           /\ At("restore") => cli.undo /\ After = "npm"
           /\ At("npm")     => After = "clean"
           /\ At("clean")   => After = "build"
           /\ At("build")   => After = IF cli.undo THEN "skills" ELSE "stamps"
           /\ At("stamps")  => ~cli.undo /\ After = "skills"
           /\ At("skills")  => After = "start"
           /\ At("start")   => After = IF cli.undo THEN "end" ELSE "health"
           /\ At("health")  => ~cli.undo /\ After = "record"
           /\ At("record")  => ~cli.undo /\ After = "end"
<1>1. cli.at \in Labels /\ cli.undo \in BOOLEAN
  BY DEF IInv, Types, States
<1>2. cli.undo => cli.at \in Undoing
  BY DEF IInv, Path
<1>3. ~cli.undo => cli.at # "restore"
  BY DEF IInv, Path
<1>4. CASE cli.undo
  BY <1>2, <1>4 DEF Undoing, After, Undo, At, Labels
<1>5. CASE ~cli.undo
  BY <1>1, <1>3, <1>5 DEF After, Forward, At, Labels
<1> QED BY <1>1, <1>4, <1>5

LEMMA Advancing ==
    ASSUME IInv, Goes, ~At("end")
    PROVE  Running /\ Advanced
<1>1. Running
  BY DEF IInv, Path, At
<1>2. After \in Labels
  BY <1>1, NextLabel
<1>3. cli \in States
  BY DEF IInv, Types
<1> QED BY <1>1, <1>2, <1>3 DEF Advanced, Goes, States

(* Most steps leave the checkout and the saved refs alone, and with them   *)
(* where the command goes and comes back to.                               *)
LEMMA SameCourse ==
    ASSUME IInv, Running, Advanced,
           ~At("end"), ~At("save"), ~At("backup"), ~At("reset"), ~At("restore"),
           tree'.head = tree.head, refs'.target = refs.target,
           refs'.backup = refs.backup, refs'.stable = refs.stable
    PROVE  Path' /\ Course' /\ Saved' /\ WayBack' /\ AllOrNothing'
<1>1. cli.at \in Labels
  BY DEF IInv, Types, States
<1> USE NextLabel DEF Advanced, IInv, At
<1>2. Path'
  BY <1>1 DEF Path, Running, Undoing, Labels
<1>3. Course'
  BY <1>1 DEF Course, Running, Trying, Labels, Path, IsTest
<1>4. Saved'
  BY <1>1 DEF Saved, Running, Labels, Release, IsTest
<1>5. WayBack'
  BY DEF WayBack, IsTest, Release
<1>6. AllOrNothing'
  BY DEF AllOrNothing, Running
<1> QED BY <1>2, <1>3, <1>4, <1>5, <1>6

LEMMA LookInv ==
    ASSUME IInv, Look
    PROVE  IInv'
<1>1. Running /\ Advanced
  <2>1. Running
    BY DEF IInv, Path, At, Look
  <2> QED BY <2>1, NextLabel DEF Advanced, Look, At, IInv, Types, States
<1>2. At("look")
  BY DEF Look
<1>3. /\ tree' = tree
      /\ refs' = refs
      /\ daemon' = daemon /\ stray' = stray
      /\ torn' = torn
  BY DEF Look, IInv, Types, Trees, RefSets, Daemons
<1>4. Path' /\ Course' /\ Saved' /\ WayBack' /\ AllOrNothing'
  BY <1>1, <1>2, <1>3, SameCourse DEF At
<1>5. Types'
  BY <1>1, <1>3 DEF IInv, Types, Trees, RefSets, Daemons, Advanced, Opt
<1>6. Follows'
  BY <1>1, <1>2, <1>3, NextLabel DEF IInv, Follows, Advanced, Running, Whole, At
<1>7. Answers'
  BY <1>1, <1>2, <1>3, NextLabel DEF IInv, Answers, Advanced, Running, At
<1> QED BY <1>4, <1>5, <1>6, <1>7 DEF IInv

LEMMA NpmInv ==
    ASSUME IInv, Npm
    PROVE  IInv'
<1>1. Running /\ Advanced
  BY Advancing DEF Npm, At
<1>2. At("npm")
  BY DEF Npm
<1>3. /\ tree' \in Trees /\ tree'.head = tree.head /\ tree'.deps = tree.head
      /\ tree'.dist = tree.dist /\ tree'.dash = tree.dash /\ tree'.skills = tree.skills
      /\ refs' = refs
      /\ daemon' = daemon /\ stray' = stray
      /\ torn' = torn
  BY DEF Npm, IInv, Types, Trees, RefSets, Daemons, Opt
<1>4. Path' /\ Course' /\ Saved' /\ WayBack' /\ AllOrNothing'
  BY <1>1, <1>2, <1>3, SameCourse DEF At
<1>5. Types'
  BY <1>1, <1>3 DEF IInv, Types, Trees, RefSets, Daemons, Advanced, Opt
<1>6. Follows'
  BY <1>1, <1>2, <1>3, NextLabel DEF IInv, Follows, Advanced, Running, Whole, At
<1>7. Answers'
  BY <1>1, <1>2, <1>3, NextLabel DEF IInv, Answers, Advanced, Running, At
<1> QED BY <1>4, <1>5, <1>6, <1>7 DEF IInv

LEMMA CleanInv ==
    ASSUME IInv, Clean
    PROVE  IInv'
<1>1. Running /\ Advanced
  BY Advancing DEF Clean, At
<1>2. At("clean")
  BY DEF Clean
<1>3. /\ tree' \in Trees /\ tree'.head = tree.head /\ tree'.deps = tree.deps
      /\ tree'.dist = None /\ tree'.dash = None /\ tree'.skills = tree.skills
      /\ refs' = refs
      /\ daemon' = daemon /\ stray' = stray
      /\ torn' = torn
  BY DEF Clean, IInv, Types, Trees, RefSets, Daemons, Opt
<1>4. Path' /\ Course' /\ Saved' /\ WayBack' /\ AllOrNothing'
  BY <1>1, <1>2, <1>3, SameCourse DEF At
<1>5. Types'
  BY <1>1, <1>3 DEF IInv, Types, Trees, RefSets, Daemons, Advanced, Opt
<1>6. Follows'
  BY <1>1, <1>2, <1>3, NextLabel DEF IInv, Follows, Advanced, Running, Whole, At
<1>7. Answers'
  BY <1>1, <1>2, <1>3, NextLabel DEF IInv, Answers, Advanced, Running, At
<1> QED BY <1>4, <1>5, <1>6, <1>7 DEF IInv

LEMMA SkillsInv ==
    ASSUME IInv, Skills
    PROVE  IInv'
<1>1. Running /\ Advanced
  BY Advancing DEF Skills, At
<1>2. At("skills")
  BY DEF Skills
<1>3. /\ tree' \in Trees /\ tree'.head = tree.head /\ tree'.deps = tree.deps
      /\ tree'.dist = tree.dist /\ tree'.dash = tree.dash /\ tree'.skills = tree.head
      /\ refs' = refs
      /\ daemon' = daemon /\ stray' = stray
      /\ torn' = torn
  BY DEF Skills, IInv, Types, Trees, RefSets, Daemons, Opt
<1>4. Path' /\ Course' /\ Saved' /\ WayBack' /\ AllOrNothing'
  BY <1>1, <1>2, <1>3, SameCourse DEF At
<1>5. Types'
  BY <1>1, <1>3 DEF IInv, Types, Trees, RefSets, Daemons, Advanced, Opt
<1>6. Follows'
  BY <1>1, <1>2, <1>3, NextLabel DEF IInv, Follows, Advanced, Running, Whole, At
<1>7. Answers'
  BY <1>1, <1>2, <1>3, NextLabel DEF IInv, Answers, Advanced, Running, At
<1> QED BY <1>4, <1>5, <1>6, <1>7 DEF IInv

LEMMA StampsInv ==
    ASSUME IInv, Stamps
    PROVE  IInv'
<1>1. Running /\ Advanced
  BY Advancing DEF Stamps, At
<1>2. At("stamps")
  BY DEF Stamps
<1>3. /\ tree' = tree
      /\ refs' = refs
      /\ daemon' = daemon /\ stray' = stray
      /\ torn' = torn
  BY DEF Stamps, IInv, Types, Trees, RefSets, Daemons
<1>4. Path' /\ Course' /\ Saved' /\ WayBack' /\ AllOrNothing'
  BY <1>1, <1>2, <1>3, SameCourse DEF At
<1>5. Types'
  BY <1>1, <1>3 DEF IInv, Types, Trees, RefSets, Daemons, Advanced, Opt
<1>6. Follows'
  BY <1>1, <1>2, <1>3, NextLabel DEF IInv, Follows, Advanced, Running, Whole, At
<1>7. Answers'
  BY <1>1, <1>2, <1>3, NextLabel DEF IInv, Answers, Advanced, Running, At
<1> QED BY <1>4, <1>5, <1>6, <1>7 DEF IInv

LEMMA HealthInv ==
    ASSUME IInv, Health
    PROVE  IInv'
<1>1. Running /\ Advanced
  BY Advancing DEF Health, At
<1>2. At("health")
  BY DEF Health
<1>3. /\ tree' = tree
      /\ refs' = refs
      /\ daemon' = daemon /\ stray' = stray
      /\ torn' = torn
      /\ Healthy
  BY DEF Health, IInv, Types, Trees, RefSets, Daemons
<1>4. Path' /\ Course' /\ Saved' /\ WayBack' /\ AllOrNothing'
  BY <1>1, <1>2, <1>3, SameCourse DEF At
<1>5. Types'
  BY <1>1, <1>3 DEF IInv, Types, Trees, RefSets, Daemons, Advanced, Opt
<1>6. Follows'
  BY <1>1, <1>2, <1>3, NextLabel DEF IInv, Follows, Advanced, Running, Whole, At
<1>7. Answers'
  BY <1>1, <1>2, <1>3, NextLabel DEF IInv, Answers, Advanced, Running, At, Healthy
<1> QED BY <1>4, <1>5, <1>6, <1>7 DEF IInv

LEMMA BuildInv ==
    ASSUME IInv, Build
    PROVE  IInv'
<1>1. Running /\ Advanced
  BY Advancing DEF Build, At
<1>2. At("build")
  BY DEF Build
<1>3. tree.dist = None /\ tree.dash = None /\ tree.head # None
  BY <1>1, <1>2, NoneIsNoCommit DEF IInv, Follows, At, Types, Trees
<1>4. PICK dist \in {tree.head, tree.dist} \ {None}, dash \in {tree.head, tree.dash} \ {None} :
        tree' = [tree EXCEPT !.dist = dist, !.dash = dash]
  BY DEF Build
<1>5. dist = tree.head /\ dash = tree.head
  BY <1>3, <1>4
<1>6. /\ tree' \in Trees /\ tree'.head = tree.head /\ tree'.deps = tree.deps
      /\ tree'.dist = tree.head /\ tree'.dash = tree.head /\ tree'.skills = tree.skills
  BY <1>4, <1>5 DEF IInv, Types, Trees, Opt
<1>7. refs' = refs /\ daemon' = daemon /\ torn' = torn /\ stray' = stray
  BY DEF Build
<1>8. Path' /\ Course' /\ Saved' /\ WayBack' /\ AllOrNothing'
  BY <1>1, <1>2, <1>6, <1>7, SameCourse DEF At
<1>9. Types'
  BY <1>1, <1>6, <1>7 DEF IInv, Types, Advanced
<1>10. Follows'
  BY <1>1, <1>2, <1>6, <1>7, NextLabel DEF IInv, Follows, Advanced, Running, Whole, At
<1>11. Answers'
  BY <1>1, <1>2, <1>6, <1>7, NextLabel DEF IInv, Answers, Advanced, Running, At
<1> QED BY <1>8, <1>9, <1>10, <1>11 DEF IInv

LEMMA StopInv ==
    ASSUME IInv, Stop
    PROVE  IInv'
<1>1. Running /\ Advanced
  BY Advancing DEF Stop, At
<1>2. At("stop")
  BY DEF Stop
<1>3. tree' = tree /\ refs' = refs /\ torn' = torn
  BY DEF Stop
<1>4. /\ daemon' \in Daemons
      /\ stray' \in BOOLEAN
      /\ ~stray' => daemon'.late = None
      /\ stray' \/ daemon'.code = None
  BY DEF Stop, IInv, Types, Daemons, Opt
<1>5. Path' /\ Course' /\ Saved' /\ WayBack' /\ AllOrNothing'
  BY <1>1, <1>2, <1>3, SameCourse DEF At
<1>6. Types'
  BY <1>1, <1>3, <1>4 DEF IInv, Types, Advanced
<1>7. Follows'
  BY <1>1, <1>2, <1>3, NextLabel DEF IInv, Follows, Advanced, Running, Whole, At
<1>8. Answers'
  BY <1>1, <1>2, <1>3, <1>4, NextLabel DEF Answers, Advanced, Running, At
<1> QED BY <1>5, <1>6, <1>7, <1>8 DEF IInv

LEMMA StartInv ==
    ASSUME IInv, Start
    PROVE  IInv'
<1>1. Running /\ Advanced
  BY Advancing DEF Start, At
<1>2. At("start")
  BY DEF Start
<1>3. tree' = tree /\ refs' = refs /\ torn' = torn
  BY DEF Start
<1>4. tree.dist = tree.head /\ (stray \/ daemon.code = None) /\ (~stray => daemon.late = None)
  BY <1>1, <1>2 DEF IInv, Follows, Answers, At
<1>5. tree.dist \in Opt
  BY DEF IInv, Types, Trees
<1>6. /\ daemon' \in Daemons
      /\ stray' \in BOOLEAN
      /\ ~stray' => daemon'.late = None
      /\ stray' \/ daemon'.code \in {None, tree.head}
  BY <1>4, <1>5 DEF Start, IInv, Types, Daemons, Opt
<1>7. Path' /\ Course' /\ Saved' /\ WayBack' /\ AllOrNothing'
  BY <1>1, <1>2, <1>3, SameCourse DEF At
<1>8. Types'
  BY <1>1, <1>3, <1>6 DEF IInv, Types, Advanced
<1>9. Follows'
  BY <1>1, <1>2, <1>3, NextLabel DEF IInv, Follows, Advanced, Running, Whole, At
<1>10. Answers'
  BY <1>1, <1>2, <1>3, <1>6, NextLabel DEF Answers, Advanced, Running, At
<1> QED BY <1>7, <1>8, <1>9, <1>10 DEF IInv

LEMMA RecordInv ==
    ASSUME IInv, Record
    PROVE  IInv'
<1>1. Running /\ Advanced
  BY Advancing DEF Record, At
<1>2. At("record")
  BY DEF Record
<1>3. tree' = tree /\ daemon' = daemon /\ torn' = torn /\ stray' = stray
  BY DEF Record
<1>4. /\ refs' \in RefSets /\ refs'.target = refs.target
      /\ refs'.backup = refs.backup /\ refs'.stable = refs.stable
  BY DEF Record, IInv, Types, Trees, RefSets, Opt
<1>5. Path' /\ Course' /\ Saved' /\ WayBack' /\ AllOrNothing'
  BY <1>1, <1>2, <1>3, <1>4, SameCourse DEF At
<1>6. Types'
  BY <1>1, <1>3, <1>4 DEF IInv, Types, Advanced
<1>7. Follows'
  BY <1>1, <1>2, <1>3, NextLabel DEF IInv, Follows, Advanced, Running, Whole, At
<1>8. Answers'
  BY <1>1, <1>2, <1>3, NextLabel DEF IInv, Answers, Advanced, Running, At
<1> QED BY <1>5, <1>6, <1>7, <1>8 DEF IInv

(* The release is saved before a test build is installed over it. *)
LEMMA SaveInv ==
    ASSUME IInv, Save
    PROVE  IInv'
<1>1. Running /\ Advanced
  BY Advancing DEF Save, At
<1>2. At("save") /\ ~cli.undo /\ cli'.at = "look"
  BY <1>1, NextLabel DEF Save, Advanced, At
<1>3. tree' = tree /\ daemon' = daemon /\ torn' = torn /\ stray' = stray
  BY DEF Save
<1>4. /\ refs' \in RefSets /\ refs'.target = refs.target
      /\ refs'.backup = refs.backup /\ refs'.stable = tree.head
  BY DEF Save, IInv, Types, Trees, RefSets, Opt
<1>5. tree.head = cli.from /\ ~IsTest(cli.from) /\ cli.from \in Commits /\ cli.cmd = "from"
  BY <1>1, <1>2 DEF IInv, Path, Course, At
<1>6. tree.head = Release(cli.goal.base)
  BY <1>1, <1>5, ReleaseIsItself DEF IInv, Course
<1>7. Types'
  BY <1>1, <1>3, <1>4 DEF IInv, Types, Advanced
<1>8. Path'
  BY <1>1, <1>2 DEF Advanced, Path, Running
<1>9. Course'
  BY <1>1, <1>2, <1>3, <1>4 DEF IInv, Course, Advanced, Running, Trying, At
<1>10. Saved'
  BY <1>1, <1>3, <1>4, <1>5, <1>6 DEF Saved, Advanced, Running, IsTest, Release
<1>11. Follows' /\ Answers'
  BY <1>1, <1>2, <1>3 DEF IInv, Follows, Answers, Advanced, Running, Whole, At
<1>12. WayBack'
  BY <1>3, <1>5 DEF WayBack, IsTest
<1>13. AllOrNothing'
  BY <1>1 DEF AllOrNothing, Running, Advanced
<1> QED BY <1>7, <1>8, <1>9, <1>10, <1>11, <1>12, <1>13 DEF IInv

LEMMA BackupInv ==
    ASSUME IInv, Backup
    PROVE  IInv'
<1>1. Running /\ Advanced
  BY Advancing DEF Backup, At
<1>2. At("backup") /\ ~cli.undo /\ cli'.at = "reset"
  BY <1>1, NextLabel DEF Backup, Advanced, At
<1>3. tree' = tree /\ daemon' = daemon /\ torn' = torn /\ stray' = stray
  BY DEF Backup
<1>4. /\ refs' \in RefSets /\ refs'.target = refs.target
      /\ refs'.backup = tree.head /\ refs'.stable = refs.stable
  BY DEF Backup, IInv, Types, Trees, RefSets, Opt
<1>5. tree.head = cli.from
  BY <1>1, <1>2 DEF IInv, Course, At
<1>6. Types'
  BY <1>1, <1>3, <1>4 DEF IInv, Types, Advanced
<1>7. Path'
  BY <1>1, <1>2 DEF Advanced, Path, Running
<1>8. Course'
  BY <1>1, <1>2, <1>3, <1>4, <1>5 DEF IInv, Course, Advanced, Running, IsTest
<1>9. Saved'
  BY <1>1, <1>2, <1>4 DEF IInv, Saved, Advanced, Running, At, IsTest, Release
<1>10. Follows' /\ Answers'
  BY <1>1, <1>2, <1>3 DEF IInv, Follows, Answers, Advanced, Running, Whole, At
<1>11. WayBack'
  BY <1>3, <1>4 DEF IInv, WayBack, IsTest, Release
<1>12. AllOrNothing'
  BY <1>1 DEF AllOrNothing, Running, Advanced
<1> QED BY <1>6, <1>7, <1>8, <1>9, <1>10, <1>11, <1>12 DEF IInv

(* The checkout changes: to the target, or back to the backup.  Either has *)
(* its release saved, when it is a test build.                             *)
LEMMA ResetInv ==
    ASSUME IInv, Reset
    PROVE  IInv'
<1>1. Running /\ Advanced
  BY Advancing DEF Reset, At
<1>2. /\ At("reset") \/ At("restore")
      /\ cli.undo <=> At("restore")
      /\ cli'.at = "npm"
  BY <1>1, NextLabel DEF Reset, Advanced, At
<1>3. refs' = refs /\ daemon' = daemon /\ torn' = torn /\ stray' = stray
  BY DEF Reset
<1>4. /\ At("reset") => refs.target = cli.goal
      /\ At("restore") => refs.backup = cli.from
      /\ cli.from \in Commits /\ cli.goal \in Commits
  BY <1>1, <1>2 DEF IInv, Course, At
<1>5. tree'.head = IF cli.undo THEN cli.from ELSE cli.goal
  BY <1>2, <1>4 DEF Reset, IInv, Types, Trees, At
<1>6. tree' \in Trees
  BY <1>2, <1>4 DEF Reset, IInv, Types, Trees, At
<1>7. Types'
  BY <1>1, <1>3, <1>6 DEF IInv, Types, Advanced
<1>8. Path'
  BY <1>1, <1>2 DEF IInv, Advanced, Path, Running, Undoing
<1>9. Course'
  BY <1>1, <1>2, <1>3, <1>4 DEF IInv, Course, Advanced, Running, IsTest, Trying, At
<1>10. Saved'
  BY <1>1, <1>2, <1>3 DEF IInv, Saved, Advanced, Running, At, IsTest, Release
<1>11. Follows'
  BY <1>1, <1>2, <1>5 DEF Follows, Advanced, Running
<1>12. Answers'
  BY <1>1, <1>2, <1>3 DEF IInv, Answers, Advanced, Running, At
<1>13. WayBack'
  <2>1. CASE cli.undo
    BY <1>1, <1>3, <1>5, <2>1 DEF IInv, Saved, WayBack, IsTest, Release
  <2>2. CASE ~cli.undo
    <3>1. At("reset")
      BY <1>2, <2>2
    <3>2. IsTest(cli.goal) => refs.stable = Release(cli.goal.base)
      BY <1>1, <3>1 DEF IInv, Saved, Course, At
    <3> QED BY <1>3, <1>5, <2>2, <3>2 DEF WayBack, IsTest, Release
  <2> QED BY <2>1, <2>2
<1>14. AllOrNothing'
  BY <1>1 DEF AllOrNothing, Running, Advanced
<1> QED BY <1>7, <1>8, <1>9, <1>10, <1>11, <1>12, <1>13, <1>14 DEF IInv

LEMMA EndInv ==
    ASSUME IInv, End
    PROVE  IInv'
<1>1. Running /\ At("end")
  BY DEF End, Running
<1>2. tree' = tree /\ daemon' = daemon /\ torn' = FALSE /\ stray' = stray
  BY DEF End
<1>3. /\ refs' \in RefSets /\ refs'.target = refs.target
      /\ refs'.backup = refs.backup /\ refs'.stable = refs.stable
  BY DEF End, IInv, Types, RefSets, Opt
<1>4. /\ cli' \in States /\ cli'.cmd = "none" /\ cli'.at = "end"
      /\ cli'.from = cli.from /\ cli'.goal = cli.goal
      /\ cli'.how = IF cli.undo THEN "failed" ELSE "applied"
  BY <1>1 DEF End, IInv, Types, States, At, Labels
<1>5. Types' /\ Path' /\ Course' /\ Saved' /\ Follows'
  BY <1>2, <1>3, <1>4 DEF IInv, Types, Path, Course, Saved, Follows, Running
<1>6. Answers'
  BY <1>2, <1>4 DEF IInv, Answers, Running
<1>7. WayBack'
  BY <1>2, <1>3 DEF IInv, WayBack, IsTest, Release
<1>8. /\ Whole
      /\ tree.head = IF cli.undo THEN cli.from ELSE cli.goal
      /\ stray \/ daemon.code \in {None, tree.head}
      /\ ~cli.undo => daemon.code # None /\ Version(daemon.code) = Version(cli.goal)
  BY <1>1 DEF IInv, Follows, Answers, Whole, At
<1>9. AllOrNothing'
  <2>1. CASE cli.undo
    BY <1>2, <1>4, <1>8, <2>1 DEF AllOrNothing, Whole
  <2>2. CASE ~cli.undo
    BY <1>2, <1>4, <1>8, <2>2 DEF AllOrNothing, Whole
  <2> QED BY <2>1, <2>2
<1> QED BY <1>5, <1>6, <1>7, <1>9 DEF IInv

-----------------------------------------------------------------------------
(* What goes wrong *)

LEMMA DamagedTree ==
    ASSUME Types
    PROVE  /\ Damaged \in Trees /\ Damaged.head = tree.head
           /\ ~At("npm") /\ ~At("build") /\ ~At("skills") => Damaged = tree
<1>1. CASE At("npm")
  BY <1>1 DEF Damaged, At, Types, Trees, Opt
<1>2. CASE At("skills")
  BY <1>2 DEF Damaged, At, Types, Trees, Opt
<1>3. CASE At("build")
  BY <1>3 DEF Damaged, At, Types, Trees, Opt
<1>4. CASE ~At("npm") /\ ~At("build") /\ ~At("skills")
  BY <1>4 DEF Damaged, Types, Trees
<1> QED BY <1>1, <1>2, <1>3, <1>4 DEF At

(* A command that throws before the try, or in its rollback, ends there.   *)
LEMMA GivesUpInv ==
    ASSUME IInv, Throws, cli.undo \/ At("save") \/ At("stop") \/ At("backup")
    PROVE  IInv'
<1>1. Running /\ ~At("end")
  BY DEF IInv, Throws, Path, At
<1>2. refs' = refs /\ daemon' = daemon /\ stray' = stray /\ torn' = (torn \/ cli.undo)
  BY DEF Throws
<1>3. tree' \in Trees /\ tree'.head = tree.head
  BY DamagedTree DEF Throws, IInv, Types
<1>4. /\ cli' \in States /\ cli'.cmd = "none" /\ cli'.at = "end"
      /\ cli'.from = cli.from /\ cli'.goal = cli.goal /\ cli'.how = "failed"
  BY DEF Throws, IInv, Types, States, Labels
<1>5. Types' /\ Path' /\ Course' /\ Saved' /\ Follows'
  BY <1>2, <1>3, <1>4 DEF IInv, Types, Path, Course, Saved, Follows, Running, States
<1>6. Answers'
  BY <1>2, <1>4 DEF IInv, Answers, Running
<1>7. WayBack'
  BY <1>2, <1>3 DEF IInv, WayBack, IsTest, Release
<1>8. AllOrNothing'
  <2>1. CASE cli.undo \/ torn
    BY <1>2, <2>1 DEF AllOrNothing
  <2>2. CASE ~cli.undo /\ ~torn
    <3>1. At("save") \/ At("stop") \/ At("backup")
      BY <2>2
    <3>2. tree' = tree
      BY <3>1, DamagedTree DEF Throws, IInv, At
    <3>3. Whole /\ tree.head = cli.from /\ (stray \/ daemon.code \in {None, tree.head})
      BY <1>1, <2>2, <3>1 DEF IInv, Follows, Course, Answers, At
    <3> QED BY <1>2, <1>4, <3>2, <3>3 DEF AllOrNothing, Whole
  <2> QED BY <2>1, <2>2
<1> QED BY <1>5, <1>6, <1>7, <1>8 DEF IInv

(* One that throws in the try goes back to the backup. *)
LEMMA RollsBackInv ==
    ASSUME IInv, Throws, ~(cli.undo \/ At("save") \/ At("stop") \/ At("backup"))
    PROVE  IInv'
<1>1. Running /\ ~At("end") /\ ~At("look")
  BY DEF IInv, Throws, Path, At
<1>2. cli.at \in Trying
  <2>1. cli.at \in Labels /\ cli.at # "restore"
    BY <1>1 DEF IInv, Types, States, Path
  <2> QED BY <1>1, <2>1 DEF Labels, Trying, At
<1>3. refs' = refs /\ daemon' = daemon /\ stray' = stray /\ torn' = torn
  BY DEF Throws, IInv, Types
<1>4. tree' \in Trees /\ tree'.head = tree.head
  BY DamagedTree DEF Throws, IInv, Types
<1>5. /\ cli' \in States /\ cli'.cmd = cli.cmd /\ cli'.at = "stop" /\ cli'.undo
      /\ cli'.from = cli.from /\ cli'.goal = cli.goal
  BY DEF Throws, IInv, Types, States, Labels
<1>6. Types'
  <2>1. torn' \in BOOLEAN /\ stray' \in BOOLEAN
    BY <1>3 DEF IInv, Types
  <2>2. refs' \in RefSets /\ daemon' \in Daemons
    BY <1>3 DEF IInv, Types
  <2> QED BY <1>4, <1>5, <2>1, <2>2 DEF Types
<1>7. Path'
  <2>1. cli'.cmd # "none" /\ cli'.at \in Undoing /\ cli'.at # "restore" /\ cli'.at # "save"
    BY <1>1, <1>5 DEF Running, Undoing
  <2> QED BY <2>1 DEF Path, Running, Undoing
<1>8. Course'
  BY <1>1, <1>2, <1>3, <1>5 DEF IInv, Course, Running, IsTest
<1>9. Saved'
  BY <1>1, <1>2, <1>3, <1>5 DEF IInv, Saved, Running, IsTest, Release, Trying
<1>10. Follows' /\ Answers'
  BY <1>3, <1>5 DEF IInv, Follows, Answers, Running
<1>11. WayBack'
  BY <1>3, <1>4 DEF IInv, WayBack, IsTest, Release
<1>12. AllOrNothing'
  BY <1>1, <1>5 DEF AllOrNothing, Running
<1> QED BY <1>6, <1>7, <1>8, <1>9, <1>10, <1>11, <1>12 DEF IInv

LEMMA KillInv ==
    ASSUME IInv, Kill
    PROVE  IInv'
<1>1. refs' = refs /\ daemon' = daemon /\ stray' = stray /\ torn' = TRUE
  BY DEF Kill
<1>2. tree' \in Trees /\ tree'.head = tree.head
  BY DamagedTree DEF Kill, IInv, Types
<1>3. cli' \in States /\ cli'.cmd = "none" /\ cli'.at = "end"
  BY DEF Kill, IInv, Types, States, Labels
<1>4. Types' /\ Path' /\ Course' /\ Saved' /\ Follows' /\ AllOrNothing'
  BY <1>1, <1>2, <1>3 DEF IInv, Types, Path, Course, Saved, Follows, Running, AllOrNothing
<1>5. Answers'
  BY <1>1, <1>3 DEF IInv, Answers, Running
<1>6. WayBack'
  BY <1>1, <1>2 DEF IInv, WayBack, IsTest, Release
<1> QED BY <1>4, <1>5, <1>6 DEF IInv

-----------------------------------------------------------------------------
(* Around the command *)

(* A daemon on its way up is a stray one. *)
LEMMA ArrivesInv ==
    ASSUME IInv, Arrives
    PROVE  IInv'
<1>1. /\ tree' = tree /\ refs' = refs /\ cli' = cli /\ torn' = torn /\ stray' = stray
  BY DEF Arrives
<1>2. stray
  BY DEF Arrives, IInv, Answers
<1>3. /\ daemon' \in Daemons
      /\ daemon.code # None => daemon'.code = daemon.code
  BY DEF Arrives, IInv, Types, Daemons, Opt
<1>4. Types' /\ Path'
  BY <1>1, <1>3 DEF IInv, Types, Path, Running, IsTest
<1>5. Course' /\ Saved' /\ WayBack'
  BY <1>1 DEF IInv, Course, Saved, Running, WayBack, IsTest, Release
<1>6. Follows'
  BY <1>1 DEF IInv, Follows, Running, Whole
<1>7. Answers'
  BY <1>1, <1>2, <1>3 DEF IInv, Answers, Running
<1>8. AllOrNothing'
  BY <1>1, <1>2, <1>3 DEF IInv, AllOrNothing
<1> QED BY <1>4, <1>5, <1>6, <1>7, <1>8 DEF IInv

LEMMA UpInv ==
    ASSUME IInv, Up
    PROVE  IInv'
<1>1. /\ tree' = tree /\ refs' = refs /\ cli' = cli /\ torn' = torn /\ stray' = stray
      /\ ~Running /\ tree.dist # None /\ daemon.code = None
  BY DEF Up, Running
<1>2. /\ daemon' \in Daemons
      /\ daemon'.code = tree.dist /\ daemon'.late = daemon.late
  BY DEF Up, IInv, Types, Daemons, Trees
<1>3. Types' /\ Path' /\ Course' /\ Saved' /\ Follows' /\ WayBack'
  BY <1>1, <1>2 DEF IInv, Types, Path, Course, Saved, Follows, Running, WayBack, Whole,
                    IsTest, Release
<1>4. Answers'
  BY <1>1, <1>2 DEF IInv, Answers, Running
<1>5. AllOrNothing'
  BY <1>1, <1>2 DEF IInv, AllOrNothing
<1> QED BY <1>3, <1>4, <1>5 DEF IInv

(* A command begins: one to a test build has the release of its base saved *)
(* or is about to save it.                                                 *)
LEMMA BeginInv ==
    ASSUME IInv, NEW cmd \in {"apply", "from", "stable"}, NEW goal \in Commits,
           NEW first \in {"save", "look"}, Begin(cmd, goal, first),
           cmd # "from" => ~IsTest(goal) /\ first = "look",
           cmd = "from" => goal.base = tree.head.base,
           cmd = "from" => (first = "save" <=> ~IsTest(tree.head))
    PROVE  IInv'
<1>1. /\ tree' = tree /\ daemon' = daemon /\ torn' = torn /\ stray' = stray
      /\ ~Running
  BY DEF Begin, Running
<1>2. /\ refs' \in RefSets /\ refs'.target = goal
      /\ refs'.backup = refs.backup /\ refs'.stable = refs.stable
  BY DEF Begin, IInv, Types, RefSets, Opt
<1>3. tree.head \in Commits
  BY DEF IInv, Types, Trees
<1>4. /\ cli' \in States /\ cli'.cmd = cmd /\ cli'.at = first /\ ~cli'.undo
      /\ cli'.from = tree.head /\ cli'.goal = goal
  BY <1>3 DEF Begin, NoCommand, States, Labels, Opt
<1>5. Types' /\ Path'
  BY <1>1, <1>2, <1>4 DEF IInv, Types, Path, Running
<1>6. Course'
  BY <1>1, <1>2, <1>3, <1>4 DEF Course, Running, IsTest, Trying
<1>7. Saved'
  BY <1>1, <1>2, <1>4 DEF IInv, Saved, Running, WayBack, IsTest, Release
<1>8. WayBack'
  BY <1>1, <1>2 DEF IInv, WayBack, IsTest, Release
<1>9. Follows'
  BY <1>1, <1>4 DEF IInv, Follows, Running, AllOrNothing, Whole
<1>10. Answers'
  BY <1>1, <1>4 DEF IInv, Answers, Running, AllOrNothing
<1>11. AllOrNothing'
  BY <1>4 DEF AllOrNothing
<1> QED BY <1>5, <1>6, <1>7, <1>8, <1>9, <1>10, <1>11 DEF IInv

LEMMA DryRunInv ==
    ASSUME IInv, NEW goal \in Commits, DryRun(goal)
    PROVE  IInv'
<1>1. /\ tree' = tree /\ daemon' = daemon /\ cli' = cli /\ torn' = torn /\ stray' = stray
      /\ ~Running
  BY DEF DryRun, Running
<1>2. refs' \in RefSets /\ refs'.stable = refs.stable
  BY DEF DryRun, IInv, Types, RefSets, Opt
<1>3. Types' /\ Path' /\ Course' /\ Saved' /\ Follows' /\ Answers' /\ AllOrNothing'
  BY <1>1, <1>2 DEF IInv, Types, Path, Course, Saved, Follows, Answers, AllOrNothing, Running
<1>4. WayBack'
  BY <1>1, <1>2 DEF IInv, WayBack, IsTest, Release
<1> QED BY <1>3, <1>4 DEF IInv

LEMMA CommandInv ==
    ASSUME IInv, ApplyCommand \/ FromCommand \/ StableCommand
    PROVE  IInv'
<1>1. CASE ApplyCommand
  <2>1. PICK goal \in Commits : CanApply(goal) /\ (Begin("apply", goal, "look") \/ DryRun(goal))
    BY <1>1 DEF ApplyCommand
  <2>2. ~IsTest(goal)
    BY <2>1 DEF CanApply
  <2> QED BY <2>1, <2>2, BeginInv, DryRunInv
<1>2. CASE FromCommand
  <2>1. PICK goal \in Commits : CanInstall(goal) /\ (Begin("from", goal, Saves) \/ DryRun(goal))
    BY <1>2 DEF FromCommand
  <2>2. goal.base = tree.head.base
    BY <2>1 DEF CanInstall, Version
  <2>3. Saves \in {"save", "look"} /\ (Saves = "save" <=> ~IsTest(tree.head))
    BY DEF Saves
  <2> QED BY <2>1, <2>2, <2>3, BeginInv, DryRunInv
<1>3. CASE StableCommand
  <2>1. refs.stable \in Commits /\ ~IsTest(refs.stable)
    BY <1>3 DEF StableCommand, IInv, Types, RefSets, Opt
  <2> QED BY <1>3, <2>1, BeginInv DEF StableCommand
<1> QED BY <1>1, <1>2, <1>3

-----------------------------------------------------------------------------
LEMMA InitInv == Init => IInv
<1> SUFFICES ASSUME Init PROVE IInv
  OBVIOUS
<1>1. PICK v \in Releases : tree = [head |-> Release(v), deps |-> Release(v),
                                    dist |-> Release(v), dash |-> Release(v),
                                    skills |-> Release(v)]
  BY DEF Init
<1>2. Release(v) \in Commits
  BY DEF Commits
<1>3. refs = [target |-> None, backup |-> None, stable |-> None, test |-> None]
  BY DEF Init
<1>4. PICK code \in {None, tree.dist} : daemon = [code |-> code, late |-> None]
  BY DEF Init
<1>5. cli = NoCommand /\ torn = FALSE /\ stray = FALSE
  BY DEF Init
<1>6. /\ cli \in States /\ ~Running /\ cli.at = "end" /\ cli.how = "none"
  BY <1>5 DEF NoCommand, States, Running, Labels, Opt
<1>7. tree \in Trees /\ Whole /\ ~IsTest(tree.head)
  BY <1>1, <1>2 DEF Trees, Whole, IsTest, Release, Opt
<1>8. daemon \in Daemons /\ daemon.late = None /\ daemon.code \in {None, tree.head}
  BY <1>4, <1>7 DEF Daemons, Whole, Trees, Opt
<1>9. refs \in RefSets
  BY <1>3 DEF RefSets, Opt
<1> QED BY <1>5, <1>6, <1>7, <1>8, <1>9
        DEF IInv, Types, Path, Course, Saved, Follows, Answers, WayBack, AllOrNothing, Whole

LEMMA NextInv == IInv /\ [Next]_vars => IInv'
<1> SUFFICES ASSUME IInv, [Next]_vars PROVE IInv'
  OBVIOUS
<1>1. CASE Step
  BY <1>1, SaveInv, LookInv, StopInv, BackupInv, ResetInv, NpmInv, CleanInv, BuildInv,
     StampsInv, SkillsInv, StartInv, HealthInv, RecordInv, EndInv DEF Step
<1>2. CASE ApplyCommand \/ FromCommand \/ StableCommand
  BY <1>2, CommandInv
<1>3. CASE Throws
  BY <1>3, GivesUpInv, RollsBackInv
<1>4. CASE Kill \/ Arrives \/ Up
  BY <1>4, KillInv, ArrivesInv, UpInv
<1>5. CASE UNCHANGED vars
  <2>1. /\ tree' = tree /\ refs' = refs /\ daemon' = daemon /\ cli' = cli
        /\ torn' = torn /\ stray' = stray
    BY <1>5 DEF vars
  <2>2. Types' /\ Path'
    BY <2>1 DEF IInv, Types, Path, Running, IsTest
  <2>3. Course' /\ Saved' /\ WayBack'
    BY <2>1 DEF IInv, Course, Saved, Running, WayBack, IsTest, Release
  <2>4. Follows' /\ Answers' /\ AllOrNothing'
    BY <2>1 DEF IInv, Follows, Answers, AllOrNothing, Running, Whole
  <2> QED BY <2>2, <2>3, <2>4 DEF IInv
<1> QED BY <1>1, <1>2, <1>3, <1>4, <1>5 DEF Next

LEMMA Inductive == Spec => []IInv
BY InitInv, NextInv, PTL DEF Spec

(* Whatever releases and test builds there are, and in whatever order they *)
(* are installed, left and rolled back, with steps that throw and commands *)
(* that are killed anywhere: a test build that is checked out has the      *)
(* release it was cut from as the one max update --stable returns to.      *)
THEOREM TestBuildsHaveAWayBack == Spec => []WayBack
<1>1. IInv => WayBack
  BY DEF IInv
<1> QED BY <1>1, Inductive, PTL

(* A command that ends and is not cut short leaves the whole checkout at   *)
(* its target or the whole checkout where it came from, and the daemon     *)
(* with it: executeUpdateApply and its rollback, for any number of them.   *)
THEOREM UpdatesAreAllOrNothing == Spec => []AllOrNothing
<1>1. IInv => AllOrNothing
  BY DEF IInv
<1> QED BY <1>1, Inductive, PTL
=============================================================================
