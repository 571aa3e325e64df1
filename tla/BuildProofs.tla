---------------------------- MODULE BuildProofs ----------------------------
(***************************************************************************)
(* Proofs about Build, for every set of packages, number of commands and   *)
(* number of faults.  What a command may find in the directory it works in *)
(* is anything at all; the invariant says from which of its stages on it   *)
(* knows what is there.                                                    *)
(***************************************************************************)
EXTENDS Build, SequenceTheorems, TLAPS

Entries == [id : Ids, image : SUBSET Items, env : Envs]
Whats == {"build", "localize", "pebuild", "merge", "unmerge", "config"}
Plans == {<<>>, BuildNeeds, LocalizeNeeds, InstallNeeds, ReplaceNeeds, UninstallNeeds, ConfigNeeds}
           \cup {UpTo("compile"), UpTo("install"), UpTo("finalize")}
Jobs == [what : Whats, pf : PFs, id : Ids, needs : Plans, done : SUBSET StageNames, old : PFs \cup {None},
         env : Envs \cup {None}, cset : SUBSET Items, stale : BOOLEAN,
         loaded : [env : Ids, of : {"old", "new"}] \cup {None}, was : Ids \cup {None}, skipped : SUBSET StageNames]

DirsType == [Places -> Dirs \cup {None}]
Typed ==
    /\ dir \in DirsType
    /\ installed \in [PFs -> Entries \cup {None}]
    /\ job \in Jobs \cup {None}
    /\ runs \in Nat /\ faults \in Nat

\* What has been run of the phases of a build, at its stages.
Five == <<"setup", "unpack", "prepare", "configure", "compile">>
Trail(done) ==
    IF "install" \in done THEN Whole
    ELSE IF "test" \in done THEN {Five, Append(Five, "test")}
    ELSE IF "compile" \in done THEN {Five}
    ELSE IF "configure" \in done THEN {<<"setup", "unpack", "prepare", "configure">>}
    ELSE IF "prepare" \in done THEN {<<"setup", "unpack", "prepare">>}
    ELSE IF "unpack" \in done THEN {<<"setup", "unpack">>}
    ELSE {<<"setup">>}
Ready == Whole \cup {Append(w, "preinst") : w \in Whole}

\* A command runs the stages of its kind, in their order.
Planned(j) ==
    /\ j.what = "build" => j.needs = BuildNeeds
    /\ j.what = "localize" => j.needs = LocalizeNeeds
    /\ j.what = "pebuild" => j.needs \in {<<>>, UpTo("compile"), UpTo("install"), UpTo("finalize")}
    /\ j.what = "merge" => j.needs = IF j.old = None THEN InstallNeeds ELSE ReplaceNeeds
    /\ j.what = "unmerge" => j.needs = UninstallNeeds /\ j.old # None
    /\ j.what = "config" => j.needs = ConfigNeeds
    /\ j.what \notin {"merge", "unmerge"} => j.old = None
Closed(j) ==
    j.what # "pebuild" => \A s \in DOMAIN j.needs \cap j.done : j.needs[s] # None => j.needs[s] \in j.done

\* From its start on, a build knows what is in its image, from its setup on
\* what is in its environment; so does what localizes a binary package.
Building(j, h) ==
    /\ j.id # BinId(j.pf) /\ j.env = None /\ ~j.stale
    /\ "start" \in j.done => h \in Dirs /\ h.image = IF "install" \in j.done THEN {<<j.id, "all">>} ELSE {}
    /\ "setup" \in j.done => h.env \in Envs /\ h.env.id = j.id /\ h.env.phases \in Trail(j.done)
Localizing(j, h) ==
    /\ j.id = BinId(j.pf) /\ j.env = BinEnv(j.pf)
    /\ "start" \in j.done => h \in Dirs /\ h.env = BinEnv(j.pf)

\* What merges finds that in its directory, and takes it over.
Merging(j, h) ==
    /\ h \in Dirs /\ h.env \in Envs /\ h.env.id = j.id
    /\ \/ /\ j.id # BinId(j.pf) /\ j.env = None /\ ~j.stale
          /\ <<j.id, "all">> \in h.image /\ h.image \subseteq Files(j.id)
          /\ "preinst" \notin j.done => h.env.phases \in Whole
          /\ "repo_add" \notin j.done => h.env.phases \in Ready
       \/ j.id = BinId(j.pf) /\ j.env = BinEnv(j.pf)
    /\ "engine" \in j.done =>
         /\ <<j.id, "all">> \in j.cset /\ <<j.id, "all">> \in h.image
         /\ ~j.stale => j.cset \subseteq Files(j.id) /\ h.image \subseteq Files(j.id)

\* What is removed or replaced is installed until its environment is loaded.
Removing(j, u, inst) ==
    j.old # None => IF "start" \in j.done THEN u \in Dirs /\ u.env \in Envs /\ u.env.id = j.was
                    ELSE inst[j.old] # None
Configuring(j, h, inst) ==
    /\ inst[j.pf] # None /\ j.id = inst[j.pf].id
    /\ "start" \in j.done => h \in Dirs /\ h.env \in Envs /\ h.env.id = j.id
Loading(j) ==
    j.what # "pebuild" /\ j.loaded # None =>
        \/ j.loaded.of = "new" /\ j.loaded.env = j.id
        \/ j.loaded.of = "old" /\ j.loaded.env = j.was /\ j.what \in {"merge", "unmerge"} /\ "start" \in j.done

Working(j, d, inst) ==
    /\ Planned(j) /\ Closed(j) /\ Loading(j)
    /\ j.what = "build" => Building(j, d[BuildDir(j.pf)])
    /\ j.what = "localize" => Localizing(j, d[BuildDir(j.pf)])
    /\ j.what = "merge" => Merging(j, d[BuildDir(j.pf)])
    /\ j.what = "config" => Configuring(j, d[BuildDir(j.pf)], inst)
    /\ Removing(j, d[UnmergeDir(j.old)], inst)

\* An entry is of one build, and so is its environment.
OneBuild(p, i) ==
    /\ <<i.id, "all">> \in i.image /\ (i.image \subseteq Files(i.id) \/ i.id = BinId(p))
    /\ i.env.id = i.id
    /\ i.env.phases \in Ready

IInv ==
    /\ Typed
    /\ \A p \in PFs : installed[p] # None => OneBuild(p, installed[p])
    /\ job # None => Working(job, dir, installed)
-----------------------------------------------------------------------------
(* The stages of each kind of command, and what each comes after.          *)

LEMMA BuildStages ==
    /\ DOMAIN BuildNeeds = {"start", "setup", "unpack", "prepare", "configure", "compile", "test", "install", "finalize"}
    /\ BuildNeeds["start"] = None /\ BuildNeeds["setup"] = "start" /\ BuildNeeds["unpack"] = "setup"
    /\ BuildNeeds["prepare"] = "unpack" /\ BuildNeeds["configure"] = "prepare" /\ BuildNeeds["compile"] = "configure"
    /\ BuildNeeds["test"] = "compile" /\ BuildNeeds["install"] = "test" /\ BuildNeeds["finalize"] = "install"
BY DEF BuildNeeds

LEMMA LocalizeStages ==
    /\ DOMAIN LocalizeNeeds = {"start", "setup", "finalize"}
    /\ LocalizeNeeds["start"] = None /\ LocalizeNeeds["setup"] = "start" /\ LocalizeNeeds["finalize"] = "setup"
BY DEF LocalizeNeeds

LEMMA InstallStages ==
    /\ DOMAIN InstallNeeds = {"engine", "start", "preinst", "transfer", "repo_add", "postinst", "finish"}
    /\ InstallNeeds["engine"] = None /\ InstallNeeds["start"] = "engine" /\ InstallNeeds["preinst"] = "start"
    /\ InstallNeeds["transfer"] = "preinst" /\ InstallNeeds["repo_add"] = "transfer"
    /\ InstallNeeds["postinst"] = "repo_add" /\ InstallNeeds["finish"] = "postinst"
BY DEF InstallNeeds

LEMMA ReplaceStages ==
    /\ DOMAIN ReplaceNeeds = {"engine", "start", "preinst", "transfer", "repo_add", "prerm", "repo_remove", "postrm", "postinst", "finish"}
    /\ ReplaceNeeds["engine"] = None /\ ReplaceNeeds["start"] = "engine" /\ ReplaceNeeds["preinst"] = "start"
    /\ ReplaceNeeds["transfer"] = "preinst" /\ ReplaceNeeds["repo_add"] = "transfer" /\ ReplaceNeeds["prerm"] = "repo_add"
    /\ ReplaceNeeds["repo_remove"] = "prerm" /\ ReplaceNeeds["postrm"] = "repo_remove"
    /\ ReplaceNeeds["postinst"] = "postrm" /\ ReplaceNeeds["finish"] = "postinst"
BY DEF ReplaceNeeds

LEMMA UninstallStages ==
    /\ DOMAIN UninstallNeeds = {"start", "prerm", "repo_remove", "postrm", "finish"}
    /\ UninstallNeeds["start"] = None /\ UninstallNeeds["prerm"] = "start" /\ UninstallNeeds["repo_remove"] = "prerm"
    /\ UninstallNeeds["postrm"] = "repo_remove" /\ UninstallNeeds["finish"] = "postrm"
BY DEF UninstallNeeds

LEMMA ConfigStages ==
    /\ DOMAIN ConfigNeeds = {"start", "config", "finish"}
    /\ ConfigNeeds["start"] = None /\ ConfigNeeds["config"] = "start" /\ ConfigNeeds["finish"] = "config"
BY DEF ConfigNeeds

LEMMA UpToStages ==
    \A needs \in {<<>>, UpTo("compile"), UpTo("install"), UpTo("finalize")} :
      /\ DOMAIN needs \subseteq DOMAIN BuildNeeds
      /\ \A s \in DOMAIN needs : needs[s] = BuildNeeds[s]
BY DEF UpTo

\* Stages are names, and None is not one.
LEMMA Names ==
    /\ None \notin StageNames /\ None \notin Dirs /\ None \notin Envs /\ None \notin PFs
    /\ {"start", "setup", "unpack", "prepare", "configure", "compile", "test", "install", "finalize", "engine", "preinst",
        "transfer", "repo_add", "prerm", "repo_remove", "postrm", "postinst", "finish", "config"} \subseteq StageNames
    /\ Phases \subseteq StageNames /\ Optional \subseteq Phases
<1>1. /\ None \notin StageNames /\ None \notin Dirs /\ None \notin Envs /\ None \notin PFs
  BY BuildAssumption
<1>2. {"start", "setup", "unpack", "prepare", "configure", "compile", "test", "install", "finalize", "engine", "preinst",
        "transfer", "repo_add", "prerm", "repo_remove", "postrm", "postinst", "finish", "config"} \subseteq StageNames
  BY DEF Phases, StageNames
<1>3. Phases \subseteq StageNames /\ Optional \subseteq Phases
  BY DEF Phases, Optional, StageNames
<1> QED
  BY <1>1, <1>2, <1>3

-----------------------------------------------------------------------------
(* Directories.                                                            *)

\* The operations have two directories, and share neither with another.
LEMMA PlacesApart ==
    /\ \A pf \in PFs : BuildDir(pf) \in Places /\ UnmergeDir(pf) \in Places
    /\ \A p \in PFs, q \in PFs \cup {None} : BuildDir(p) # UnmergeDir(q)
BY DEF BuildDir, UnmergeDir, Places

\* Two directories with the same files and the same environment.
Alike(d, h) == (h = None <=> d = None) /\ (h # None => h \in Dirs /\ h.image = d.image /\ h.env = d.env)

\* A mark is all that is added, and only to a directory that is there.
LEMMA MarkDoes ==
    ASSUME NEW d \in DirsType, NEW place \in Places, NEW s \in StageNames
    PROVE  /\ MarkIn(d, place, s) \in DirsType
           /\ \A q \in Places : Alike(d[q], MarkIn(d, place, s)[q])
<1>1. CASE d[place] = None
  BY <1>1 DEF MarkIn, Alike, DirsType
<1>2. CASE d[place] # None
  <2> DEFINE m == [d[place] EXCEPT !.marks = @ \cup {s}]
  <2>1. d[place] \in Dirs
    BY <1>2 DEF DirsType
  <2>2. m \in Dirs /\ m.image = d[place].image /\ m.env = d[place].env
    BY <2>1 DEF Dirs
  <2>3. MarkIn(d, place, s) = [d EXCEPT ![place] = m]
    BY <1>2 DEF MarkIn
  <2> HIDE DEF m
  <2> QED
    BY <1>2, <2>1, <2>2, <2>3, Names DEF Alike, DirsType
<1> QED
  BY <1>1, <1>2

LEMMA PutDoes ==
    ASSUME NEW d \in DirsType, NEW place \in Places, NEW v \in Dirs \cup {None}
    PROVE  /\ [d EXCEPT ![place] = v] \in DirsType
           /\ [d EXCEPT ![place] = v][place] = v
           /\ \A q \in Places : q # place => [d EXCEPT ![place] = v][q] = d[q]
BY DEF DirsType

\* A fresh directory, or what was there, with an environment put into it.
LEMMA EnvPut ==
    ASSUME NEW h \in Dirs, NEW e \in Envs \cup {None}
    PROVE  [h EXCEPT !.env = e] \in Dirs /\ [h EXCEPT !.env = e].env = e /\ [h EXCEPT !.env = e].image = h.image
BY DEF Dirs

LEMMA FreshIs == Fresh \in Dirs /\ Fresh.image = {} /\ Fresh.env = None
BY DEF Fresh, Dirs

\* What a phase leaves in a directory.
LEMMA LeavesDoes ==
    ASSUME job \in Jobs, NEW h \in Dirs, NEW phase, NEW part \in {"all", "part"}
    PROVE  /\ Leaves(phase, h, part) \in Dirs
           /\ Leaves(phase, h, part).image = IF phase = "install" THEN h.image \cup {<<job.id, part>>}
                                             ELSE IF phase = "preinst" THEN h.image \cup {<<job.id, "preinst">>} ELSE h.image
           /\ Leaves(phase, h, part).env = h.env
<1> DEFINE i == CASE phase = "install" -> h.image \cup {<<job.id, part>>}
                  [] phase = "preinst" -> h.image \cup {<<job.id, "preinst">>}
                  [] OTHER -> h.image
           b == (h.patched \/ phase = "prepare")
<1>1. Leaves(phase, h, part) = [h EXCEPT !.image = i, !.patched = b]
  BY DEF Leaves
<1>2. i = IF phase = "install" THEN h.image \cup {<<job.id, part>>}
          ELSE IF phase = "preinst" THEN h.image \cup {<<job.id, "preinst">>} ELSE h.image
  OBVIOUS
<1>3. i \in SUBSET Items
  <2>1. job.id \in Ids /\ h.image \in SUBSET Items
    BY DEF Jobs, Dirs
  <2>2. <<job.id, part>> \in Items /\ <<job.id, "preinst">> \in Items
    BY <2>1 DEF Items
  <2> QED
    BY <2>1, <2>2, <1>2
<1>4. b \in BOOLEAN
  BY DEF Dirs
<1> HIDE DEF i, b
<1> QED
  BY <1>1, <1>2, <1>3, <1>4 DEF Dirs

\* What a phase makes of the environment.
LEMMA SavedDoes ==
    ASSUME job \in Jobs, NEW h \in Dirs, NEW phase \in Phases, phase # "setup" => h.env # None
    PROVE  /\ Saved(phase, h) \in Envs
           /\ Saved(phase, h).id = IF phase = "setup" THEN job.id ELSE h.env.id
           /\ Saved(phase, h).phases = IF phase = "setup" THEN <<"setup">> ELSE IF phase = "postrm" THEN h.env.phases
                                       ELSE Append(h.env.phases, phase)
<1>1. CASE phase = "setup"
  <2> DEFINE one == <<"setup">>
  <2>1. Saved(phase, h) = [id |-> job.id, phases |-> one]
    BY <1>1 DEF Saved, Env
  <2>2. job.id \in Ids /\ one \in Seq(Phases)
    BY <1>1 DEF Jobs
  <2> HIDE DEF one
  <2>3. Saved(phase, h) \in Envs /\ Saved(phase, h).id = job.id /\ Saved(phase, h).phases = one
    BY <2>1, <2>2 DEF Envs
  <2> QED
    BY <1>1, <2>3 DEF one
<1>2. CASE phase = "postrm"
  BY <1>2 DEF Saved, Dirs, Envs
<1>3. CASE phase # "setup" /\ phase # "postrm"
  <2>1. h.env \in Envs
    BY <1>3 DEF Dirs
  <2>2. Saved(phase, h) = [h.env EXCEPT !.phases = Append(@, phase)]
    BY <1>3 DEF Saved
  <2>3. Append(h.env.phases, phase) \in Seq(Phases)
    BY <2>1 DEF Envs
  <2> QED
    BY <1>3, <2>1, <2>2, <2>3 DEF Envs
<1> QED
  BY <1>1, <1>2, <1>3

-----------------------------------------------------------------------------
(* Commands.                                                               *)

\* The command as it is once a stage is done, apart from what the stage does.
Goes(k, j, s) ==
    /\ k \in Jobs /\ k.done = j.done \cup {s}
    /\ k.what = j.what /\ k.pf = j.pf /\ k.id = j.id /\ k.needs = j.needs /\ k.old = j.old /\ k.env = j.env

LEMMA DoneDoes ==
    ASSUME job \in Jobs, NEW s \in StageNames
    PROVE  /\ Goes(Done(s), job, s)
           /\ Done(s).cset = job.cset /\ Done(s).stale = job.stale /\ Done(s).loaded = job.loaded /\ Done(s).was = job.was
BY DEF Done, Goes, Jobs

LEMMA LoadedPut ==
    ASSUME NEW j \in Jobs, NEW s, NEW k \in Jobs, Goes(k, j, s), NEW l \in [env : Ids, of : {"old", "new"}] \cup {None}
    PROVE  LET m == [k EXCEPT !.loaded = l] IN Goes(m, j, s) /\ m.cset = k.cset /\ m.stale = k.stale /\ m.loaded = l /\ m.was = k.was
BY DEF Goes, Jobs

LEMMA SkippedPut ==
    ASSUME NEW j \in Jobs, NEW s \in StageNames, NEW k \in Jobs, Goes(k, j, s)
    PROVE  LET m == [k EXCEPT !.skipped = @ \cup {s}]
           IN Goes(m, j, s) /\ m.cset = k.cset /\ m.stale = k.stale /\ m.loaded = k.loaded /\ m.was = k.was
BY DEF Goes, Jobs

LEMMA WasPut ==
    ASSUME NEW j \in Jobs, NEW s, NEW k \in Jobs, Goes(k, j, s), NEW w \in Ids \cup {None}
    PROVE  LET m == [k EXCEPT !.was = w] IN Goes(m, j, s) /\ m.cset = k.cset /\ m.stale = k.stale /\ m.loaded = k.loaded /\ m.was = w
BY DEF Goes, Jobs

LEMMA CsetPut ==
    ASSUME NEW j \in Jobs, NEW s, NEW k \in Jobs, Goes(k, j, s), NEW c \in SUBSET Items
    PROVE  LET m == [k EXCEPT !.cset = c] IN Goes(m, j, s) /\ m.cset = c /\ m.stale = k.stale /\ m.loaded = k.loaded /\ m.was = k.was
BY DEF Goes, Jobs

\* Which stages a command has, and what each comes after.
LEMMA StagesOf ==
    ASSUME NEW j \in Jobs, Planned(j), NEW s \in DOMAIN j.needs
    PROVE  /\ s \in StageNames
           /\ j.what \in {"build", "pebuild"} => s \in DOMAIN BuildNeeds /\ j.needs[s] = BuildNeeds[s]
           /\ j.what = "localize" => s \in DOMAIN LocalizeNeeds /\ j.needs[s] = LocalizeNeeds[s]
           /\ j.what = "merge" /\ j.old = None => s \in DOMAIN InstallNeeds /\ j.needs[s] = InstallNeeds[s]
           /\ j.what = "merge" /\ j.old # None => s \in DOMAIN ReplaceNeeds /\ j.needs[s] = ReplaceNeeds[s]
           /\ j.what = "unmerge" => s \in DOMAIN UninstallNeeds /\ j.needs[s] = UninstallNeeds[s] /\ j.old # None
           /\ j.what = "config" => s \in DOMAIN ConfigNeeds /\ j.needs[s] = ConfigNeeds[s]
<1>1. j.what \in Whats
  BY DEF Jobs
<1>2. CASE j.what = "build" \/ j.what = "pebuild"
  <2>1. s \in DOMAIN BuildNeeds /\ j.needs[s] = BuildNeeds[s]
    BY <1>2, UpToStages DEF Planned
  <2> QED
    BY <1>2, <2>1, BuildStages, Names
<1>3. CASE j.what = "localize"
  BY <1>3, LocalizeStages, Names DEF Planned
<1>4. CASE j.what = "merge"
  BY <1>4, InstallStages, ReplaceStages, Names DEF Planned
<1>5. CASE j.what = "unmerge"
  BY <1>5, UninstallStages, Names DEF Planned
<1>6. CASE j.what = "config"
  BY <1>6, ConfigStages, Names DEF Planned
<1> QED
  BY <1>1, <1>2, <1>3, <1>4, <1>5, <1>6 DEF Whats

\* A stage that may run is one of the command's, and not done yet.
LEMMA NextIs ==
    ASSUME NEW s, Next_(s)
    PROVE  /\ job # None /\ s \in DOMAIN job.needs /\ s \notin job.done
           /\ job.needs[s] # None => job.needs[s] \in job.done
BY DEF Next_

\* It is planned and closed after the stage as before.
LEMMA StillPlanned ==
    ASSUME job \in Jobs, NEW s, Next_(s), Planned(job), Closed(job), NEW k, Goes(k, job, s)
    PROVE  Planned(k) /\ Closed(k)
<1>1. Planned(k)
  BY DEF Planned, Goes
<1>2. ASSUME k.what # "pebuild", NEW r \in DOMAIN k.needs \cap k.done, k.needs[r] # None PROVE k.needs[r] \in k.done
  <2>1. r \in DOMAIN job.needs /\ (r = s \/ r \in job.done) /\ k.needs[r] = job.needs[r] /\ job.what # "pebuild"
    BY <1>2 DEF Goes
  <2>2. CASE r = s
    BY <1>2, <2>1, <2>2, NextIs DEF Goes
  <2>3. CASE r \in job.done
    BY <1>2, <2>1, <2>3 DEF Goes, Closed
  <2> QED
    BY <2>1, <2>2, <2>3
<1> QED
  BY <1>1, <1>2 DEF Closed

\* What is done of a build is the first of its stages.
LEMMA BuildChain ==
    ASSUME NEW j \in Jobs, j.what = "build", Planned(j), Closed(j)
    PROVE  /\ "setup" \in j.done => "start" \in j.done
           /\ "unpack" \in j.done => "setup" \in j.done
           /\ "prepare" \in j.done => "unpack" \in j.done
           /\ "configure" \in j.done => "prepare" \in j.done
           /\ "compile" \in j.done => "configure" \in j.done
           /\ "test" \in j.done => "compile" \in j.done
           /\ "install" \in j.done => "test" \in j.done
           /\ "finalize" \in j.done => "install" \in j.done
<1>1. \A s \in DOMAIN BuildNeeds : s \in j.done /\ BuildNeeds[s] # None => BuildNeeds[s] \in j.done
  BY DEF Planned, Closed
<1> QED
  BY <1>1, BuildStages, Names

LEMMA AppendIs ==
    ASSUME NEW S, NEW s \in Seq(S), NEW e \in S, NEW r \in Seq(S), Len(r) = Len(s) + 1,
           \A i \in 1 .. Len(s) : r[i] = s[i], r[Len(r)] = e
    PROVE  Append(s, e) = r
<1>1. Append(s, e) \in Seq(S) /\ Len(Append(s, e)) = Len(s) + 1
  BY AppendProperties
<1>2. \A i \in 1 .. Len(s) + 1 : Append(s, e)[i] = r[i]
  BY AppendProperties
<1> QED
  BY <1>1, <1>2

LEMMA Appended ==
    /\ Append(<<"setup">>, "unpack") = <<"setup", "unpack">>
    /\ Append(<<"setup", "unpack">>, "prepare") = <<"setup", "unpack", "prepare">>
    /\ Append(<<"setup", "unpack", "prepare">>, "configure") = <<"setup", "unpack", "prepare", "configure">>
    /\ Append(<<"setup", "unpack", "prepare", "configure">>, "compile") = <<"setup", "unpack", "prepare", "configure", "compile">>
    /\ Append(<<"setup", "unpack", "prepare", "configure", "compile">>, "install") = <<"setup", "unpack", "prepare", "configure", "compile", "install">>
    /\ Append(<<"setup", "unpack", "prepare", "configure", "compile">>, "test") = <<"setup", "unpack", "prepare", "configure", "compile", "test">>
    /\ Append(<<"setup", "unpack", "prepare", "configure", "compile", "test">>, "install") = <<"setup", "unpack", "prepare", "configure", "compile", "test", "install">>
<1> DEFINE S == {"setup", "unpack", "prepare", "configure", "compile", "test", "install"}
<1>1. Append(<<"setup">>, "unpack") = <<"setup", "unpack">>
  <2> DEFINE s == <<"setup">>
             r == <<"setup", "unpack">>
  <2>1. s \in Seq(S) /\ r \in Seq(S) /\ Len(s) = 1 /\ Len(r) = 2 /\ r[2] = "unpack" /\ "unpack" \in S
    OBVIOUS
  <2>2. \A i \in 1 .. 1 : r[i] = s[i]
    OBVIOUS
  <2> HIDE DEF s, r, S
  <2>3. Len(r) = Len(s) + 1 /\ (\A i \in 1 .. Len(s) : r[i] = s[i]) /\ r[Len(r)] = "unpack"
    BY <2>1, <2>2
  <2>4. Append(s, "unpack") = r
    BY <2>1, <2>3, AppendIs
  <2> QED
    BY <2>4 DEF s, r
<1>2. Append(<<"setup", "unpack">>, "prepare") = <<"setup", "unpack", "prepare">>
  <2> DEFINE s == <<"setup", "unpack">>
             r == <<"setup", "unpack", "prepare">>
  <2>1. s \in Seq(S) /\ r \in Seq(S) /\ Len(s) = 2 /\ Len(r) = 3 /\ r[3] = "prepare" /\ "prepare" \in S
    OBVIOUS
  <2>2. \A i \in 1 .. 2 : r[i] = s[i]
    OBVIOUS
  <2> HIDE DEF s, r, S
  <2>3. Len(r) = Len(s) + 1 /\ (\A i \in 1 .. Len(s) : r[i] = s[i]) /\ r[Len(r)] = "prepare"
    BY <2>1, <2>2
  <2>4. Append(s, "prepare") = r
    BY <2>1, <2>3, AppendIs
  <2> QED
    BY <2>4 DEF s, r
<1>3. Append(<<"setup", "unpack", "prepare">>, "configure") = <<"setup", "unpack", "prepare", "configure">>
  <2> DEFINE s == <<"setup", "unpack", "prepare">>
             r == <<"setup", "unpack", "prepare", "configure">>
  <2>1. s \in Seq(S) /\ r \in Seq(S) /\ Len(s) = 3 /\ Len(r) = 4 /\ r[4] = "configure" /\ "configure" \in S
    OBVIOUS
  <2>2. \A i \in 1 .. 3 : r[i] = s[i]
    OBVIOUS
  <2> HIDE DEF s, r, S
  <2>3. Len(r) = Len(s) + 1 /\ (\A i \in 1 .. Len(s) : r[i] = s[i]) /\ r[Len(r)] = "configure"
    BY <2>1, <2>2
  <2>4. Append(s, "configure") = r
    BY <2>1, <2>3, AppendIs
  <2> QED
    BY <2>4 DEF s, r
<1>4. Append(<<"setup", "unpack", "prepare", "configure">>, "compile") = <<"setup", "unpack", "prepare", "configure", "compile">>
  <2> DEFINE s == <<"setup", "unpack", "prepare", "configure">>
             r == <<"setup", "unpack", "prepare", "configure", "compile">>
  <2>1. s \in Seq(S) /\ r \in Seq(S) /\ Len(s) = 4 /\ Len(r) = 5 /\ r[5] = "compile" /\ "compile" \in S
    OBVIOUS
  <2>2. \A i \in 1 .. 4 : r[i] = s[i]
    OBVIOUS
  <2> HIDE DEF s, r, S
  <2>3. Len(r) = Len(s) + 1 /\ (\A i \in 1 .. Len(s) : r[i] = s[i]) /\ r[Len(r)] = "compile"
    BY <2>1, <2>2
  <2>4. Append(s, "compile") = r
    BY <2>1, <2>3, AppendIs
  <2> QED
    BY <2>4 DEF s, r
<1>5. Append(<<"setup", "unpack", "prepare", "configure", "compile">>, "install") = <<"setup", "unpack", "prepare", "configure", "compile", "install">>
  <2> DEFINE s == <<"setup", "unpack", "prepare", "configure", "compile">>
             r == <<"setup", "unpack", "prepare", "configure", "compile", "install">>
  <2>1. s \in Seq(S) /\ r \in Seq(S) /\ Len(s) = 5 /\ Len(r) = 6 /\ r[6] = "install" /\ "install" \in S
    OBVIOUS
  <2>2. \A i \in 1 .. 5 : r[i] = s[i]
    OBVIOUS
  <2> HIDE DEF s, r, S
  <2>3. Len(r) = Len(s) + 1 /\ (\A i \in 1 .. Len(s) : r[i] = s[i]) /\ r[Len(r)] = "install"
    BY <2>1, <2>2
  <2>4. Append(s, "install") = r
    BY <2>1, <2>3, AppendIs
  <2> QED
    BY <2>4 DEF s, r
<1>6. Append(<<"setup", "unpack", "prepare", "configure", "compile">>, "test") = <<"setup", "unpack", "prepare", "configure", "compile", "test">>
  <2> DEFINE s == <<"setup", "unpack", "prepare", "configure", "compile">>
             r == <<"setup", "unpack", "prepare", "configure", "compile", "test">>
  <2>1. s \in Seq(S) /\ r \in Seq(S) /\ Len(s) = 5 /\ Len(r) = 6 /\ r[6] = "test" /\ "test" \in S
    OBVIOUS
  <2>2. \A i \in 1 .. 5 : r[i] = s[i]
    OBVIOUS
  <2> HIDE DEF s, r, S
  <2>3. Len(r) = Len(s) + 1 /\ (\A i \in 1 .. Len(s) : r[i] = s[i]) /\ r[Len(r)] = "test"
    BY <2>1, <2>2
  <2>4. Append(s, "test") = r
    BY <2>1, <2>3, AppendIs
  <2> QED
    BY <2>4 DEF s, r
<1>7. Append(<<"setup", "unpack", "prepare", "configure", "compile", "test">>, "install") = <<"setup", "unpack", "prepare", "configure", "compile", "test", "install">>
  <2> DEFINE s == <<"setup", "unpack", "prepare", "configure", "compile", "test">>
             r == <<"setup", "unpack", "prepare", "configure", "compile", "test", "install">>
  <2>1. s \in Seq(S) /\ r \in Seq(S) /\ Len(s) = 6 /\ Len(r) = 7 /\ r[7] = "install" /\ "install" \in S
    OBVIOUS
  <2>2. \A i \in 1 .. 6 : r[i] = s[i]
    OBVIOUS
  <2> HIDE DEF s, r, S
  <2>3. Len(r) = Len(s) + 1 /\ (\A i \in 1 .. Len(s) : r[i] = s[i]) /\ r[Len(r)] = "install"
    BY <2>1, <2>2
  <2>4. Append(s, "install") = r
    BY <2>1, <2>3, AppendIs
  <2> QED
    BY <2>4 DEF s, r
<1> QED
  BY <1>1, <1>2, <1>3, <1>4, <1>5, <1>6, <1>7

LEMMA TrailIs ==
    ASSUME NEW done
    PROVE  /\ "install" \in done => Trail(done) = Whole
           /\ "install" \notin done /\ "test" \in done => Trail(done) = {Five, Append(Five, "test")}
           /\ done \cap {"install", "test"} = {} /\ "compile" \in done => Trail(done) = {Five}
           /\ done \cap {"install", "test", "compile"} = {} /\ "configure" \in done => Trail(done) = {<<"setup", "unpack", "prepare", "configure">>}
           /\ done \cap {"install", "test", "compile", "configure"} = {} /\ "prepare" \in done => Trail(done) = {<<"setup", "unpack", "prepare">>}
           /\ done \cap {"install", "test", "compile", "configure", "prepare"} = {} /\ "unpack" \in done => Trail(done) = {<<"setup", "unpack">>}
           /\ done \cap {"install", "test", "compile", "configure", "prepare", "unpack"} = {} => Trail(done) = {<<"setup">>}
BY DEF Trail

\* A phase that runs takes the trail one step on; one that is passed over,
\* which is test only, leaves it.
LEMMA TrailGrows ==
    ASSUME NEW j \in Jobs, j.what = "build", Planned(j), Closed(j),
           NEW s \in {"unpack", "prepare", "configure", "compile", "test", "install"}, s \notin j.done, BuildNeeds[s] \in j.done,
           NEW t \in Trail(j.done)
    PROVE  Append(t, s) \in Trail(j.done \cup {s}) /\ (s = "test" => t \in Trail(j.done \cup {s}))
<1>1. CASE s = "unpack"
  <2>1. j.done \cap {"install", "test", "compile", "configure", "prepare", "unpack"} = {} /\ "setup" \in j.done
    BY <1>1, BuildChain, BuildStages
  <2>2. (j.done \cup {"unpack"}) \cap {"install", "test", "compile", "configure", "prepare"} = {} /\ "unpack" \in j.done \cup {"unpack"}
    BY <2>1
  <2>3. t \in {<<"setup">>}
    BY <2>1, TrailIs
  <2>4. Trail(j.done \cup {"unpack"}) = {<<"setup", "unpack">>}
    BY <2>2, TrailIs
  <2> QED
    BY <1>1, <2>3, <2>4, Appended
<1>2. CASE s = "prepare"
  <2>1. j.done \cap {"install", "test", "compile", "configure", "prepare"} = {} /\ "unpack" \in j.done
    BY <1>2, BuildChain, BuildStages
  <2>2. (j.done \cup {"prepare"}) \cap {"install", "test", "compile", "configure"} = {} /\ "prepare" \in j.done \cup {"prepare"}
    BY <2>1
  <2>3. t \in {<<"setup", "unpack">>}
    BY <2>1, TrailIs
  <2>4. Trail(j.done \cup {"prepare"}) = {<<"setup", "unpack", "prepare">>}
    BY <2>2, TrailIs
  <2> QED
    BY <1>2, <2>3, <2>4, Appended
<1>3. CASE s = "configure"
  <2>1. j.done \cap {"install", "test", "compile", "configure"} = {} /\ "prepare" \in j.done
    BY <1>3, BuildChain, BuildStages
  <2>2. (j.done \cup {"configure"}) \cap {"install", "test", "compile"} = {} /\ "configure" \in j.done \cup {"configure"}
    BY <2>1
  <2>3. t \in {<<"setup", "unpack", "prepare">>}
    BY <2>1, TrailIs
  <2>4. Trail(j.done \cup {"configure"}) = {<<"setup", "unpack", "prepare", "configure">>}
    BY <2>2, TrailIs
  <2> QED
    BY <1>3, <2>3, <2>4, Appended
<1>4. CASE s = "compile"
  <2>1. j.done \cap {"install", "test", "compile"} = {} /\ "configure" \in j.done
    BY <1>4, BuildChain, BuildStages
  <2>2. (j.done \cup {"compile"}) \cap {"install", "test"} = {} /\ "compile" \in j.done \cup {"compile"}
    BY <2>1
  <2>3. t \in {<<"setup", "unpack", "prepare", "configure">>}
    BY <2>1, TrailIs
  <2>4. Trail(j.done \cup {"compile"}) = {Five}
    BY <2>2, TrailIs
  <2> QED
    BY <1>4, <2>3, <2>4, Appended DEF Five
<1>5. CASE s = "test"
  <2>1. j.done \cap {"install", "test"} = {} /\ "compile" \in j.done
    BY <1>5, BuildChain, BuildStages
  <2>2. (j.done \cup {"test"}) \cap {"install"} = {} /\ "test" \in j.done \cup {"test"}
    BY <2>1
  <2>3. t \in {Five}
    BY <2>1, TrailIs
  <2>4. Trail(j.done \cup {"test"}) = {Five, Append(Five, "test")}
    BY <2>2, TrailIs
  <2> QED
    BY <1>5, <2>3, <2>4, Appended
<1>6. CASE s = "install"
  <2>1. j.done \cap {"install"} = {} /\ "test" \in j.done
    BY <1>6, BuildChain, BuildStages
  <2>2. "install" \in j.done \cup {"install"}
    BY <2>1
  <2>3. t \in {Five, Append(Five, "test")}
    BY <2>1, TrailIs
  <2>4. Trail(j.done \cup {"install"}) = Whole
    BY <2>2, TrailIs
  <2> QED
    BY <1>6, <2>3, <2>4, Appended DEF Five, Whole
<1> QED
  BY <1>1, <1>2, <1>3, <1>4, <1>5, <1>6

LEMMA BuildingRuns ==
    ASSUME NEW j \in Jobs, j.what = "build", Planned(j), Closed(j), NEW h, Building(j, h),
           NEW s \in Phases \cap DOMAIN j.needs, s \notin j.done, j.needs[s] \in j.done,
           NEW k, Goes(k, j, s), k.stale = j.stale, NEW g \in Dirs,
           g.image = IF s = "install" THEN h.image \cup {<<j.id, "all">>} ELSE h.image,
           g.env \in Envs, g.env.id = j.id,
           g.env.phases = IF s = "setup" THEN <<"setup">> ELSE Append(h.env.phases, s)
    PROVE  Building(k, g)
<1>1. s \in {"setup", "unpack", "prepare", "configure", "compile", "test", "install"} /\ j.needs[s] = BuildNeeds[s]
  BY BuildStages DEF Planned, Phases
<1>2. "start" \in j.done
  BY <1>1, BuildStages, BuildChain
<1>3. g.image = IF "install" \in k.done THEN {<<k.id, "all">>} ELSE {}
  BY <1>1, <1>2 DEF Building, Goes
<1>4. g.env.phases \in Trail(k.done)
  <2>1. CASE s = "setup"
    <3>1. k.done = j.done \cup {"setup"} /\ j.done \cap {"unpack", "prepare", "configure", "compile", "test", "install"} = {}
      BY <2>1, BuildChain DEF Goes
    <3> QED
      BY <2>1, <3>1 DEF Trail
  <2>2. CASE s # "setup"
    <3>1. "setup" \in j.done
      BY <1>1, <2>2, BuildStages, BuildChain
    <3>2. h.env.phases \in Trail(j.done)
      BY <3>1 DEF Building
    <3>3. /\ s \in {"unpack", "prepare", "configure", "compile", "test", "install"}
          /\ BuildNeeds[s] \in j.done /\ k.done = j.done \cup {s} /\ g.env.phases = Append(h.env.phases, s)
      BY <1>1, <2>2 DEF Goes
    <3>4. Append(h.env.phases, s) \in Trail(j.done \cup {s})
      BY <3>2, <3>3, TrailGrows
    <3> QED
      BY <3>3, <3>4
  <2> QED
    BY <2>1, <2>2
<1> QED
  BY <1>1, <1>2, <1>3, <1>4 DEF Building, Goes

\* The test phase may be passed over.
LEMMA BuildingSkips ==
    ASSUME NEW j \in Jobs, j.what = "build", Planned(j), Closed(j), NEW h, Building(j, h),
           "test" \in DOMAIN j.needs, "test" \notin j.done, j.needs["test"] \in j.done,
           NEW k, Goes(k, j, "test"), k.stale = j.stale, NEW g, Alike(h, g)
    PROVE  Building(k, g)
<1>1. "start" \in j.done /\ "setup" \in j.done /\ j.needs["test"] = BuildNeeds["test"]
  BY BuildStages, BuildChain DEF Planned
<1>2. g \in Dirs /\ g.image = h.image /\ g.env = h.env
  BY <1>1, Names DEF Alike, Building
<1>3. h.env.phases \in Trail(k.done)
  BY <1>1, TrailGrows DEF Building, Goes
<1> QED
  BY <1>1, <1>2, <1>3 DEF Building, Goes

LEMMA LocalizingSkips ==
    ASSUME NEW j \in Jobs, NEW h, Localizing(j, h), NEW s, s # "start", NEW k, Goes(k, j, s), NEW g, Alike(h, g)
    PROVE  Localizing(k, g)
BY Names DEF Localizing, Goes, Alike

\* Which stages of a merge, a removal or a configuration come after which.
LEMMA MergeAfter ==
    ASSUME NEW j \in Jobs, j.what = "merge", Planned(j), Closed(j),
           NEW s \in DOMAIN j.needs, s \notin j.done, j.needs[s] # None => j.needs[s] \in j.done
    PROVE  /\ s \notin {"setup", "unpack", "prepare", "configure", "compile", "test", "install", "config", "finalize"}
           /\ s \notin {"engine"} => "engine" \in j.done
           /\ s \notin {"engine", "start"} => "start" \in j.done
           /\ s \notin {"engine", "start", "preinst"} => "preinst" \in j.done
           /\ s \notin {"engine", "start", "preinst", "transfer"} => "transfer" \in j.done
           /\ s \notin {"engine", "start", "preinst", "transfer", "repo_add"} => "repo_add" \in j.done
           /\ s \in {"prerm", "postrm", "repo_remove"} => j.old # None
<1>1. \A r \in DOMAIN j.needs \cap j.done : j.needs[r] # None => j.needs[r] \in j.done
  BY DEF Closed
<1>2. CASE j.old = None
  <2>1. j.needs = InstallNeeds
    BY <1>2 DEF Planned
  <2> QED
    BY <1>1, <1>2, <2>1, InstallStages, Names
<1>3. CASE j.old # None
  <2>1. j.needs = ReplaceNeeds
    BY <1>3 DEF Planned
  <2> QED
    BY <1>1, <1>3, <2>1, ReplaceStages, Names
<1> QED
  BY <1>2, <1>3

LEMMA UnmergeAfter ==
    ASSUME NEW j \in Jobs, j.what = "unmerge", Planned(j), Closed(j),
           NEW s \in DOMAIN j.needs, s \notin j.done, j.needs[s] # None => j.needs[s] \in j.done
    PROVE  /\ s \in {"start", "prerm", "repo_remove", "postrm", "finish"}
           /\ s # "start" => "start" \in j.done
           /\ j.old # None
<1>1. \A r \in DOMAIN j.needs \cap j.done : j.needs[r] # None => j.needs[r] \in j.done
  BY DEF Closed
<1>2. j.needs = UninstallNeeds /\ j.old # None
  BY DEF Planned
<1> QED
  BY <1>1, <1>2, UninstallStages, Names

LEMMA ConfigAfter ==
    ASSUME NEW j \in Jobs, j.what = "config", Planned(j), Closed(j),
           NEW s \in DOMAIN j.needs, s \notin j.done, j.needs[s] # None => j.needs[s] \in j.done
    PROVE  s \in {"start", "config", "finish"} /\ (s # "start" => "start" \in j.done) /\ j.old = None
<1>1. \A r \in DOMAIN j.needs \cap j.done : j.needs[r] # None => j.needs[r] \in j.done
  BY DEF Closed
<1>2. j.needs = ConfigNeeds /\ j.old = None
  BY DEF Planned
<1> QED
  BY <1>1, <1>2, ConfigStages, Names

\* preinst and postinst run in the environment that is there.
LEMMA MergingRuns ==
    ASSUME NEW j \in Jobs, j.what = "merge", NEW h, Merging(j, h), "engine" \in j.done,
           NEW s \in {"preinst", "postinst"}, s = "postinst" => "repo_add" \in j.done /\ "preinst" \in j.done, s \notin j.done,
           NEW k, Goes(k, j, s), k.stale = j.stale, k.cset = j.cset, NEW g \in Dirs,
           g.image = IF s = "preinst" THEN h.image \cup {<<j.id, "preinst">>} ELSE h.image,
           g.env \in Envs, g.env.id = h.env.id, g.env.phases = Append(h.env.phases, s)
    PROVE  Merging(k, g)
<1>1. g.env.id = k.id
  BY DEF Merging, Goes
<1>2. s = "preinst" /\ h.env.phases \in Whole => g.env.phases \in Ready
  BY DEF Ready
<1>3. <<j.id, "preinst">> \in Files(j.id)
  BY DEF Files
<1>4. "engine" \in k.done /\ (s = "postinst" => "repo_add" \in k.done) /\ "preinst" \in k.done
  BY DEF Goes
<1>5. \/ /\ k.id # BinId(k.pf) /\ k.env = None /\ ~k.stale
         /\ <<k.id, "all">> \in g.image /\ g.image \subseteq Files(k.id)
         /\ "preinst" \notin k.done => g.env.phases \in Whole
         /\ "repo_add" \notin k.done => g.env.phases \in Ready
      \/ k.id = BinId(k.pf) /\ k.env = BinEnv(k.pf)
  BY <1>2, <1>3, <1>4 DEF Merging, Goes
<1>6. /\ <<k.id, "all">> \in k.cset /\ <<k.id, "all">> \in g.image
      /\ ~k.stale => k.cset \subseteq Files(k.id) /\ g.image \subseteq Files(k.id)
  BY <1>3 DEF Merging, Goes
<1> QED
  BY <1>1, <1>5, <1>6 DEF Merging

\* Every other stage of it leaves the directory of the build as it is.
LEMMA MergingPasses ==
    ASSUME NEW j \in Jobs, j.what = "merge", NEW h, Merging(j, h), NEW s, s # "engine",
           NEW k, Goes(k, j, s), k.stale = j.stale, NEW g, Alike(h, g),
           "engine" \in j.done => k.cset = j.cset \/ k.cset = h.image
    PROVE  Merging(k, g)
<1>1. g \in Dirs /\ g.image = h.image /\ g.env = h.env
  BY Names DEF Alike, Merging
<1>2. "engine" \in k.done => "engine" \in j.done
  BY DEF Goes
<1> QED
  BY <1>1, <1>2 DEF Merging, Goes

LEMMA LoadingKept ==
    ASSUME NEW j, Loading(j), NEW s, NEW k, Goes(k, j, s), k.loaded = j.loaded, k.was = j.was \/ "start" \notin j.done
    PROVE  Loading(k)
BY DEF Loading, Goes

-----------------------------------------------------------------------------
(* The steps of a command.                                                 *)

LEMMA Kept ==
    ASSUME Typed', \A p \in PFs : installed'[p] # None => OneBuild(p, installed'[p]),
           job' # None => Working(job', dir', installed')
    PROVE  IInv'
BY DEF IInv

\* A command that ends, well or not, leaves whatever there is.
LEMMA Ended ==
    ASSUME IInv, dir' \in DirsType, job' = None, UNCHANGED installed, runs' \in Nat, faults' \in Nat
    PROVE  IInv'
<1>1. Typed'
  BY DEF IInv, Typed
<1> QED
  BY <1>1, Kept DEF IInv

LEMMA Running ==
    ASSUME IInv, NEW s, Next_(s)
    PROVE  /\ job # None /\ job \in Jobs /\ Working(job, dir, installed)
           /\ Planned(job) /\ Closed(job) /\ Loading(job)
           /\ s \in StageNames /\ s \in DOMAIN job.needs /\ s \notin job.done
           /\ job.needs[s] # None => job.needs[s] \in job.done
           /\ BuildDir(job.pf) \in Places /\ job.pf \in PFs
           /\ job.old # None => job.old \in PFs /\ UnmergeDir(job.old) \in Places
<1>1. job # None /\ s \in DOMAIN job.needs /\ s \notin job.done /\ (job.needs[s] # None => job.needs[s] \in job.done)
  BY NextIs
<1>2. job \in Jobs /\ Working(job, dir, installed)
  BY <1>1 DEF IInv, Typed
<1>3. Planned(job) /\ Closed(job) /\ Loading(job)
  BY <1>2 DEF Working
<1>4. job.pf \in PFs /\ job.old \in PFs \cup {None}
  BY <1>2 DEF Jobs
<1> QED
  BY <1>1, <1>2, <1>3, <1>4, StagesOf, PlacesApart

\* A new command is typed, and has done nothing.
LEMMA JobIs ==
    ASSUME IInv, NEW what \in Whats, NEW pf \in PFs, NEW needs \in Plans
    PROVE  LET j == Job(what, pf, needs)
           IN /\ j \in Jobs /\ j.what = what /\ j.pf = pf /\ j.needs = needs /\ j.done = {} /\ j.old = None
              /\ j.env = None /\ ~j.stale /\ j.loaded = None /\ j.id # BinId(pf)
<1>1. <<pf, runs + 1>> \in Ids /\ <<pf, runs + 1>> # BinId(pf)
  BY DEF IInv, Typed, Ids, BinId
<1> QED
  BY <1>1 DEF Job, Jobs

LEMMA BuildStep == ASSUME IInv, NEW pf \in PFs, Build(pf) PROVE IInv'
<1> DEFINE j == Job("build", pf, BuildNeeds)
<1>1. job' = j /\ runs' = runs + 1 /\ UNCHANGED <<dir, installed, faults>>
  BY DEF Build, Begin
<1>2. BuildNeeds \in Plans /\ "build" \in Whats
  BY DEF Plans, Whats
<1>3. /\ j \in Jobs /\ j.what = "build" /\ j.pf = pf /\ j.needs = BuildNeeds /\ j.done = {} /\ j.old = None
      /\ j.env = None /\ ~j.stale /\ j.loaded = None /\ j.id # BinId(pf)
  BY <1>2, JobIs
<1> HIDE DEF j
<1>4. Typed'
  BY <1>1, <1>3 DEF IInv, Typed
<1>5. Building(j, dir[BuildDir(j.pf)])
  BY <1>3 DEF Building
<1>6. Working(j, dir, installed)
  BY <1>3, <1>5 DEF Working, Planned, Closed, Loading, Removing
<1> QED
  BY <1>1, <1>4, <1>6, Kept DEF IInv

LEMMA BinIs ==
    ASSUME NEW pf \in PFs
    PROVE  BinId(pf) \in Ids /\ BinEnv(pf) \in Envs /\ BinEnv(pf).id = BinId(pf) /\ BinEnv(pf).phases \in Whole
<1> DEFINE w == <<"setup", "unpack", "prepare", "configure", "compile", "install">>
<1>1. BinId(pf) \in Ids
  BY DEF BinId, Ids
<1>2. w \in Seq(Phases) /\ w \in Whole
  BY DEF Phases, Whole
<1>3. BinEnv(pf) = [id |-> BinId(pf), phases |-> w]
  BY DEF BinEnv, Env
<1> HIDE DEF w
<1> QED
  BY <1>1, <1>2, <1>3 DEF Envs

LEMMA LocalizeStep == ASSUME IInv, NEW pf \in PFs, Localize(pf) PROVE IInv'
<1> DEFINE i == Job("localize", pf, LocalizeNeeds)
           j == [i EXCEPT !.id = BinId(pf), !.env = BinEnv(pf)]
<1>1. job' = j /\ runs' = runs + 1 /\ UNCHANGED <<dir, installed, faults>>
  BY DEF Localize, Begin
<1>2. LocalizeNeeds \in Plans /\ "localize" \in Whats
  BY DEF Plans, Whats
<1>3. i \in Jobs /\ i.what = "localize" /\ i.pf = pf /\ i.needs = LocalizeNeeds /\ i.done = {} /\ i.old = None /\ i.loaded = None
  BY <1>2, JobIs
<1> HIDE DEF i
<1>4. /\ j \in Jobs /\ j.what = "localize" /\ j.pf = pf /\ j.needs = LocalizeNeeds /\ j.done = {} /\ j.old = None /\ j.loaded = None
      /\ j.id = BinId(pf) /\ j.env = BinEnv(pf)
  BY <1>3, BinIs DEF Jobs
<1> HIDE DEF j
<1>5. Typed'
  BY <1>1, <1>4 DEF IInv, Typed
<1>6. Localizing(j, dir[BuildDir(j.pf)])
  BY <1>4 DEF Localizing
<1>7. Working(j, dir, installed)
  BY <1>4, <1>6 DEF Working, Planned, Closed, Loading, Removing
<1> QED
  BY <1>1, <1>5, <1>7, Kept DEF IInv

LEMMA UnmergeStep == ASSUME IInv, NEW pf \in PFs, Unmerge(pf) PROVE IInv'
<1> DEFINE i == Job("unmerge", pf, UninstallNeeds)
           j == [i EXCEPT !.old = pf]
<1>1. job' = j /\ runs' = runs + 1 /\ UNCHANGED <<dir, installed, faults>> /\ installed[pf] # None
  BY DEF Unmerge, Begin
<1>2. UninstallNeeds \in Plans /\ "unmerge" \in Whats
  BY DEF Plans, Whats
<1>3. i \in Jobs /\ i.what = "unmerge" /\ i.pf = pf /\ i.needs = UninstallNeeds /\ i.done = {} /\ i.loaded = None
  BY <1>2, JobIs
<1> HIDE DEF i
<1>4. j \in Jobs /\ j.what = "unmerge" /\ j.needs = UninstallNeeds /\ j.done = {} /\ j.old = pf /\ j.loaded = None
  BY <1>3 DEF Jobs
<1> HIDE DEF j
<1>5. Typed'
  BY <1>1, <1>4 DEF IInv, Typed
<1>6. Working(j, dir, installed)
  BY <1>1, <1>4, Names DEF Working, Planned, Closed, Loading, Removing
<1> QED
  BY <1>1, <1>5, <1>6, Kept DEF IInv

LEMMA ConfigStep == ASSUME IInv, NEW pf \in PFs, Config(pf) PROVE IInv'
<1> DEFINE i == Job("config", pf, ConfigNeeds)
           j == [i EXCEPT !.id = installed[pf].id]
<1>1. job' = j /\ runs' = runs + 1 /\ UNCHANGED <<dir, installed, faults>> /\ installed[pf] # None
  BY DEF Config, Begin
<1>2. ConfigNeeds \in Plans /\ "config" \in Whats
  BY DEF Plans, Whats
<1>3. i \in Jobs /\ i.what = "config" /\ i.pf = pf /\ i.needs = ConfigNeeds /\ i.done = {} /\ i.old = None /\ i.loaded = None
  BY <1>2, JobIs
<1>4. installed[pf].id \in Ids
  BY <1>1 DEF IInv, Typed, Entries
<1> HIDE DEF i
<1>5. /\ j \in Jobs /\ j.what = "config" /\ j.pf = pf /\ j.needs = ConfigNeeds /\ j.done = {} /\ j.old = None /\ j.loaded = None
      /\ j.id = installed[pf].id
  BY <1>3, <1>4 DEF Jobs
<1> HIDE DEF j
<1>6. Typed'
  BY <1>1, <1>5 DEF IInv, Typed
<1>7. Configuring(j, dir[BuildDir(j.pf)], installed)
  BY <1>1, <1>5 DEF Configuring
<1>8. Working(j, dir, installed)
  BY <1>5, <1>7 DEF Working, Planned, Closed, Loading, Removing
<1> QED
  BY <1>1, <1>6, <1>8, Kept DEF IInv

LEMMA PebuildStep ==
    ASSUME IInv, NEW pf \in PFs, NEW target \in {"compile", "install", "finalize"}, NEW clean \in BOOLEAN, Pebuild(pf, target, clean)
    PROVE  IInv'
<1> DEFINE there == IF clean THEN None ELSE dir[BuildDir(pf)]
           marks == IF there = None THEN {} ELSE there.marks
           needs == IF target \in marks THEN <<>> ELSE UpTo(target)
           i == Job("pebuild", pf, needs)
           j == [i EXCEPT !.done = marks]
<1>1. job' = j /\ runs' = runs + 1 /\ dir' = [dir EXCEPT ![BuildDir(pf)] = there] /\ UNCHANGED <<installed, faults>>
  BY DEF Pebuild, Begin
<1>2. there \in Dirs \cup {None} /\ BuildDir(pf) \in Places
  BY PlacesApart DEF IInv, Typed, DirsType
<1>3. marks \in SUBSET StageNames
  BY <1>2 DEF Dirs
<1>4. needs \in Plans /\ needs \in {<<>>, UpTo("compile"), UpTo("install"), UpTo("finalize")} /\ "pebuild" \in Whats
  BY DEF Plans, Whats
<1> HIDE DEF there, marks, needs
<1>5. i \in Jobs /\ i.what = "pebuild" /\ i.needs = needs /\ i.old = None
  BY <1>4, JobIs
<1> HIDE DEF i
<1>6. j \in Jobs /\ j.what = "pebuild" /\ j.needs = needs /\ j.old = None
  BY <1>3, <1>5 DEF Jobs
<1> HIDE DEF j
<1>7. Typed'
  BY <1>1, <1>2, <1>6 DEF IInv, Typed, DirsType
<1>8. Working(j, dir', installed)
  BY <1>4, <1>6 DEF Working, Planned, Closed, Loading, Removing
<1> QED
  BY <1>1, <1>7, <1>8, Kept DEF IInv

LEMMA SetupDoes ==
    ASSUME IInv, NEW place \in Places, NEW clean \in BOOLEAN
    PROVE  /\ SetupWorkdir(place, clean) \in Dirs
           /\ clean => SetupWorkdir(place, clean).image = {} /\ SetupWorkdir(place, clean).env = None
           /\ ~clean /\ dir[place] # None => SetupWorkdir(place, clean) = dir[place]
<1>1. dir[place] \in Dirs \cup {None}
  BY DEF IInv, Typed, DirsType
<1> QED
  BY <1>1, FreshIs DEF SetupWorkdir

LEMMA StartBuildStep == ASSUME IInv, StartBuild PROVE IInv'
<1> DEFINE place == BuildDir(job.pf)
           there == SetupWorkdir(place, job.what \in {"build", "config"})
           data == IF job.what = "config" THEN installed[job.pf].env ELSE job.env
           e == IF data = None THEN there.env ELSE data
           g == [there EXCEPT !.env = e]
           d == [dir EXCEPT ![place] = g]
           h == dir'[place]
<1>1. /\ job.what \in {"build", "pebuild", "localize", "config"} /\ Next_("start")
      /\ dir' = MarkIn([dir EXCEPT ![place] = [there EXCEPT !.env = IF data = None THEN @ ELSE data]], place, "start")
      /\ job' = Done("start") /\ UNCHANGED <<installed, runs, faults>>
  BY DEF StartBuild
<1>2. /\ job # None /\ job \in Jobs /\ Working(job, dir, installed) /\ Planned(job) /\ Closed(job) /\ Loading(job)
      /\ place \in Places /\ job.pf \in PFs /\ "start" \in StageNames /\ "start" \notin job.done
  BY <1>1, Running
<1>3. /\ there \in Dirs
      /\ job.what \in {"build", "config"} => there.image = {}
  <2> DEFINE clean == job.what \in {"build", "config"}
  <2>1. clean \in BOOLEAN
    OBVIOUS
  <2>2. /\ SetupWorkdir(place, clean) \in Dirs
        /\ clean => SetupWorkdir(place, clean).image = {}
    BY ONLY IInv, <1>2, <2>1, SetupDoes
  <2> QED
    BY <2>2
<1>4. data \in Envs \cup {None}
  <2>1. job.what = "config" => installed[job.pf] # None
    BY <1>2 DEF Working, Configuring
  <2>2. job.what = "config" => installed[job.pf] \in Entries
    BY <1>2, <2>1 DEF IInv, Typed
  <2> QED
    BY <1>2, <2>2 DEF Entries, Jobs
<1>5. dir' = MarkIn(d, place, "start")
  <2>1. [there EXCEPT !.env = IF data = None THEN @ ELSE data] = g
    OBVIOUS
  <2> QED
    BY <1>1, <2>1
<1>6. g \in Dirs /\ g.env = e /\ g.image = there.image
  <2>1. e \in Envs \cup {None}
    BY <1>3, <1>4 DEF Dirs
  <2> HIDE DEF e, there
  <2> QED
    BY <1>3, <2>1, EnvPut
<1> HIDE DEF g, there
<1>7. d \in DirsType /\ d[place] = g
  BY <1>2, <1>6, PutDoes DEF IInv, Typed
<1> HIDE DEF d
<1>8. dir' \in DirsType /\ h \in Dirs /\ h.image = there.image /\ h.env = e
  <2>1. dir' \in DirsType /\ Alike(d[place], dir'[place])
    BY <1>2, <1>5, <1>7, MarkDoes
  <2> QED
    BY <1>6, <1>7, <2>1, Names DEF Alike
<1>9. /\ Goes(job', job, "start") /\ job'.cset = job.cset /\ job'.stale = job.stale
      /\ job'.loaded = job.loaded /\ job'.was = job.was
  BY <1>1, <1>2, DoneDoes
<1> HIDE DEF h
<1>10. Typed'
  BY <1>1, <1>8, <1>9 DEF IInv, Typed, Goes
<1>11. job'.what = "build" => Building(job', h)
  <2>1. ASSUME job.what = "build" PROVE /\ "install" \notin job'.done /\ "setup" \notin job'.done
    BY <1>2, <1>9, <2>1, BuildChain DEF Goes
  <2> QED
    BY <1>2, <1>3, <1>8, <1>9, <2>1 DEF Working, Building, Goes
<1>12. job'.what = "localize" => Localizing(job', h)
  <2>1. job.what = "localize" => job.env = BinEnv(job.pf) /\ job.id = BinId(job.pf)
    BY <1>2 DEF Working, Localizing
  <2>2. job.what = "localize" => e = BinEnv(job.pf)
    BY <1>2, <2>1, BinIs, Names
  <2> HIDE DEF e
  <2> QED
    BY <1>8, <1>9, <2>1, <2>2 DEF Localizing, Goes
<1>13. job'.what = "config" => Configuring(job', h, installed')
  <2> HIDE DEF data
  <2>1. ASSUME job.what = "config"
        PROVE  installed[job.pf] # None /\ job.id = installed[job.pf].id /\ data = installed[job.pf].env
    BY <1>2, <2>1 DEF Working, Configuring, data
  <2>2. ASSUME job.what = "config" PROVE data \in Envs /\ data.id = job.id
    BY <1>2, <2>1, <2>2 DEF IInv, Typed, Entries, OneBuild
  <2>3. ASSUME job.what = "config" PROVE e \in Envs /\ e.id = job.id
    BY <2>2, <2>3, Names
  <2> HIDE DEF e
  <2> QED
    BY <1>1, <1>8, <1>9, <2>1, <2>3 DEF Configuring, Goes
<1>14. Planned(job') /\ Closed(job') /\ Loading(job') /\ job'.old = None /\ job'.what # "merge"
  BY <1>1, <1>2, <1>9, StillPlanned, LoadingKept DEF Planned, Goes
<1>15. h = dir'[BuildDir(job'.pf)]
  BY <1>9 DEF Goes, h
<1>16. Working(job', dir', installed')
  BY <1>11, <1>12, <1>13, <1>14, <1>15 DEF Working, Removing
<1> QED
  BY <1>1, <1>10, <1>16, Kept DEF IInv

LEMMA StartMergeStep == ASSUME IInv, StartMerge PROVE IInv'
<1> DEFINE place == BuildDir(job.pf)
           here == SetupWorkdir(place, FALSE)
           e == IF job.env = None THEN here.env ELSE job.env
           g == [here EXCEPT !.env = e]
           mine == IF job.what = "unmerge" THEN dir ELSE [dir EXCEPT ![place] = g]
           theirs == UnmergeDir(job.old)
           there == IF mine[theirs] = None THEN Fresh ELSE mine[theirs]
           o == [there EXCEPT !.env = installed[job.old].env]
           w == IF job.old = None THEN None ELSE installed[job.old].id
<1>1. /\ job.what \in {"merge", "unmerge"} /\ Next_("start")
      /\ dir' = IF job.old = None THEN mine ELSE [mine EXCEPT ![theirs] = o]
      /\ job' = [Done("start") EXCEPT !.was = w] /\ UNCHANGED <<installed, runs, faults>>
  <2>1. [here EXCEPT !.env = IF job.env = None THEN @ ELSE job.env] = g
    OBVIOUS
  <2> QED
    BY <2>1 DEF StartMerge
<1>2. /\ job # None /\ job \in Jobs /\ Working(job, dir, installed) /\ Planned(job) /\ Closed(job) /\ Loading(job)
      /\ place \in Places /\ job.pf \in PFs /\ "start" \in StageNames /\ "start" \notin job.done
      /\ "start" \in DOMAIN job.needs /\ (job.needs["start"] # None => job.needs["start"] \in job.done)
      /\ job.old # None => job.old \in PFs /\ theirs \in Places
  BY <1>1, Running
<1>3. /\ here \in Dirs
      /\ dir[place] # None => here = dir[place]
  <2>1. FALSE \in BOOLEAN
    OBVIOUS
  <2> QED
    BY <1>2, <2>1, SetupDoes
<1>4. ASSUME job.what = "merge"
      PROVE  /\ Merging(job, here) /\ here = dir[place] /\ e \in Envs /\ e.id = job.id
             /\ job.id # BinId(job.pf) => e = here.env
  <2>1. Merging(job, dir[place])
    BY <1>2, <1>4 DEF Working
  <2>2. here = dir[place]
    BY <1>3, <2>1, Names DEF Merging
  <2>3. job.env = None \/ (job.env = BinEnv(job.pf) /\ job.id = BinId(job.pf))
    BY <2>1 DEF Merging
  <2>4. job.id # BinId(job.pf) => job.env = None
    BY <2>1 DEF Merging
  <2> HIDE DEF here
  <2> QED
    BY <1>2, <2>1, <2>2, <2>3, <2>4, BinIs, Names DEF Merging
<1>5. ASSUME job.what = "merge"
      PROVE  g \in Dirs /\ g.env = e /\ g.image = here.image
  <2> HIDE DEF e, here
  <2> QED
    BY <1>3, <1>4, <1>5, EnvPut
<1> HIDE DEF g
<1>6. /\ mine \in DirsType /\ (job.what = "merge" => mine[place] = g)
  <2>1. dir \in DirsType
    BY DEF IInv, Typed
  <2>2. CASE job.what = "unmerge"
    BY <2>1, <2>2
  <2>3. CASE job.what = "merge"
    <3>1. mine = [dir EXCEPT ![place] = g]
      BY <2>3
    <3> HIDE DEF mine, place
    <3> QED
      BY <1>2, <1>5, <2>1, <2>3, <3>1, PutDoes DEF DirsType
  <2> QED
    BY <1>1, <2>2, <2>3
<1> HIDE DEF mine, here, e
<1>7. job.old # None => /\ installed[job.old] # None /\ installed[job.old] \in Entries
                       /\ installed[job.old].env \in Envs /\ installed[job.old].id \in Ids
                       /\ installed[job.old].env.id = installed[job.old].id
  <2>1. job.old # None => installed[job.old] # None
    BY <1>2 DEF Working, Removing
  <2>2. job.old # None => installed[job.old] \in Entries /\ OneBuild(job.old, installed[job.old])
    BY <1>2, <2>1 DEF IInv, Typed
  <2> QED
    BY <2>1, <2>2 DEF Entries, OneBuild
<1>8. job.old # None => o \in Dirs /\ o.env = installed[job.old].env
  <2>1. job.old # None => there \in Dirs
    BY <1>2, <1>6, FreshIs DEF DirsType
  <2> HIDE DEF there
  <2> QED
    BY <1>7, <2>1, EnvPut
<1> HIDE DEF o
<1>9. /\ dir' \in DirsType
      /\ job.what = "merge" => dir'[place] = g
      /\ job.old # None => dir'[theirs] = o
  <2>1. CASE job.old = None
    BY <1>1, <1>6, <2>1
  <2>2. CASE job.old # None
    <3>1. theirs # place
      BY <1>2, PlacesApart
    <3>2. dir' = [mine EXCEPT ![theirs] = o] /\ theirs \in Places /\ o \in Dirs
      BY <1>1, <1>2, <1>8, <2>2
    <3> HIDE DEF theirs, place
    <3>3. dir' \in DirsType /\ dir'[theirs] = o /\ dir'[place] = mine[place]
      BY <1>2, <1>6, <3>1, <3>2, PutDoes DEF DirsType
    <3> QED
      BY <1>6, <3>3
  <2> QED
    BY <2>1, <2>2
<1>10. /\ Goes(job', job, "start") /\ job'.cset = job.cset /\ job'.stale = job.stale
       /\ job'.loaded = job.loaded /\ job'.was = w
  <2>1. /\ Goes(Done("start"), job, "start") /\ Done("start") \in Jobs
        /\ Done("start").cset = job.cset /\ Done("start").stale = job.stale /\ Done("start").loaded = job.loaded
    BY <1>2, DoneDoes DEF Goes
  <2>2. w \in Ids \cup {None}
    BY <1>7
  <2> HIDE DEF w
  <2> QED
    BY <1>1, <1>2, <2>1, <2>2, WasPut
<1>11. Typed'
  BY <1>1, <1>9, <1>10 DEF IInv, Typed, Goes
<1>12. job.what = "merge" => Merging(job', g)
  <2>1. ASSUME job.what = "merge" PROVE "engine" \in job.done
    BY <1>2, <2>1, MergeAfter, Names
  <2>2. ASSUME job.what = "merge" PROVE g \in Dirs /\ g.env \in Envs /\ g.env.id = job.id /\ g.image = here.image
    BY <1>4, <1>5, <2>2
  <2>3. ASSUME job.what = "merge", job.id # BinId(job.pf) PROVE g.env = here.env
    BY <1>4, <1>5, <2>3
  <2> QED
    BY <1>4, <1>10, <2>1, <2>2, <2>3 DEF Merging, Goes
<1>13. Planned(job') /\ Closed(job') /\ Loading(job')
  BY <1>1, <1>2, <1>10, StillPlanned, LoadingKept
<1>14. Removing(job', dir'[UnmergeDir(job'.old)], installed')
  <2>1. job'.old = job.old /\ "start" \in job'.done
    BY <1>10 DEF Goes
  <2>2. job.old # None => dir'[theirs] \in Dirs /\ dir'[theirs].env \in Envs /\ dir'[theirs].env.id = job'.was
    BY <1>7, <1>8, <1>9, <1>10
  <2> QED
    BY <2>1, <2>2 DEF Removing
<1>15. job'.what \in {"merge", "unmerge"} /\ (job'.what = "merge" => Merging(job', dir'[BuildDir(job'.pf)]))
  BY <1>1, <1>9, <1>10, <1>12 DEF Goes
<1>16. Working(job', dir', installed')
  BY <1>13, <1>14, <1>15 DEF Working
<1> QED
  BY <1>1, <1>11, <1>16, Kept DEF IInv

\* A phase works in a directory of the command's.
LEMMA PlaceIs ==
    ASSUME IInv, NEW s, Next_(s)
    PROVE  /\ PlaceOf(s) \in Places
           /\ s \in {"prerm", "postrm"} => PlaceOf(s) = UnmergeDir(job.old) /\ job.old # None
           /\ s \notin {"prerm", "postrm"} => PlaceOf(s) = BuildDir(job.pf)
           /\ job.what \in {"build", "pebuild", "localize", "config"} => s \notin {"prerm", "postrm"}
<1>1. /\ job \in Jobs /\ Planned(job) /\ Closed(job) /\ s \in DOMAIN job.needs /\ s \notin job.done
      /\ job.needs[s] # None => job.needs[s] \in job.done
      /\ BuildDir(job.pf) \in Places /\ (job.old # None => UnmergeDir(job.old) \in Places)
  BY Running
<1>2. job.what \in {"build", "pebuild"} => s \notin {"prerm", "postrm"}
  BY <1>1, StagesOf, BuildStages
<1>3. job.what = "localize" => s \notin {"prerm", "postrm"}
  BY <1>1, StagesOf, LocalizeStages
<1>4. job.what = "config" => s \notin {"prerm", "postrm"}
  BY <1>1, StagesOf, ConfigStages
<1>5. job.what = "merge" /\ s \in {"prerm", "postrm"} => job.old # None
  BY <1>1, MergeAfter
<1>6. job.what = "unmerge" => job.old # None
  BY <1>1 DEF Planned
<1>7. job.what \in {"build", "pebuild", "localize", "config", "merge", "unmerge"}
  BY <1>1 DEF Jobs, Whats
<1>8. s \in {"prerm", "postrm"} => job.old # None
  BY <1>2, <1>3, <1>4, <1>5, <1>6, <1>7
<1> QED
  BY <1>1, <1>2, <1>3, <1>4, <1>8 DEF PlaceOf

LEMMA RunPhaseDoes ==
    ASSUME IInv, NEW s \in Phases, RunPhase(s)
    PROVE  LET place == PlaceOf(s)
               h == dir[place]
               g == dir'[place]
           IN /\ Next_(s) /\ ~(job.what = "localize" /\ s = "setup")
              /\ Goes(job', job, s) /\ job'.cset = job.cset /\ job'.stale = job.stale /\ job'.was = job.was
              /\ s = "setup" => job'.loaded = None
              /\ s # "setup" => /\ h.env \in Envs /\ job'.loaded.env = h.env.id
                                /\ job'.loaded.of = IF s \in {"prerm", "postrm"} THEN "old" ELSE "new"
              /\ dir' \in DirsType /\ \A q \in Places : q # place => dir'[q] = dir[q]
              /\ h \in Dirs /\ g \in Dirs /\ g.env \in Envs
              /\ g.image = IF s = "install" THEN h.image \cup {<<job.id, "all">>}
                           ELSE IF s = "preinst" THEN h.image \cup {<<job.id, "preinst">>} ELSE h.image
              /\ g.env.id = IF s = "setup" THEN job.id ELSE h.env.id
              /\ g.env.phases = IF s = "setup" THEN <<"setup">> ELSE IF s = "postrm" THEN h.env.phases ELSE Append(h.env.phases, s)
              /\ UNCHANGED <<installed, runs, faults>>
<1> DEFINE place == PlaceOf(s)
           h == dir[place]
           l == Leaves(s, h, "all")
           v == [l EXCEPT !.env = Saved(s, h)]
           d == [dir EXCEPT ![place] = v]
           m == IF s = "setup" THEN None ELSE [env |-> h.env.id, of |-> IF s \in {"prerm", "postrm"} THEN "old" ELSE "new"]
<1>1. /\ Next_(s) /\ ~(job.what = "localize" /\ s = "setup") /\ h # None /\ (s # "setup" => h.env # None)
      /\ dir' = MarkIn(d, place, s) /\ job' = [Done(s) EXCEPT !.loaded = m] /\ UNCHANGED <<installed, runs, faults>>
  BY DEF RunPhase
<1>2. job \in Jobs /\ s \in StageNames /\ place \in Places
  BY <1>1, Running, PlaceIs
<1>3. h \in Dirs /\ (s # "setup" => h.env \in Envs)
  BY <1>1, <1>2 DEF IInv, Typed, DirsType, Dirs
<1> HIDE DEF h, place
<1>4. /\ l \in Dirs
      /\ l.image = IF s = "install" THEN h.image \cup {<<job.id, "all">>}
                   ELSE IF s = "preinst" THEN h.image \cup {<<job.id, "preinst">>} ELSE h.image
  BY <1>2, <1>3, LeavesDoes
<1>5. /\ Saved(s, h) \in Envs
      /\ Saved(s, h).id = IF s = "setup" THEN job.id ELSE h.env.id
      /\ Saved(s, h).phases = IF s = "setup" THEN <<"setup">> ELSE IF s = "postrm" THEN h.env.phases ELSE Append(h.env.phases, s)
  BY <1>1, <1>2, <1>3, SavedDoes
<1>6. v \in Dirs /\ v.env = Saved(s, h) /\ v.image = l.image
  <2> HIDE DEF l
  <2> QED
    BY <1>4, <1>5, EnvPut
<1> HIDE DEF v
<1>7. d \in DirsType /\ d[place] = v /\ \A q \in Places : q # place => d[q] = dir[q]
  BY <1>2, <1>6, PutDoes DEF IInv, Typed, DirsType
<1> HIDE DEF d
<1>8. dir' \in DirsType /\ \A q \in Places : Alike(d[q], dir'[q])
  BY <1>1, <1>2, <1>7, MarkDoes
<1>9. \A q \in Places : q # place => dir'[q] = dir[q]
  <2>1. \A q \in Places : q # place => dir'[q] = d[q]
    BY <1>1, <1>7 DEF MarkIn, DirsType
  <2> QED
    BY <1>7, <2>1
<1>10. /\ dir'[place] \in Dirs /\ dir'[place].env = Saved(s, h) /\ dir'[place].image = l.image
  BY <1>2, <1>6, <1>7, <1>8, Names DEF Alike
<1>11. m \in [env : Ids, of : {"old", "new"}] \cup {None} /\ (s # "setup" => m.env = h.env.id /\ m.of = IF s \in {"prerm", "postrm"} THEN "old" ELSE "new")
  BY <1>3 DEF Envs
<1>12. s = "setup" => m = None
  OBVIOUS
<1> HIDE DEF m
<1>13. /\ Goes(job', job, s) /\ job'.cset = job.cset /\ job'.stale = job.stale /\ job'.was = job.was /\ job'.loaded = m
  <2>1. /\ Goes(Done(s), job, s) /\ Done(s) \in Jobs
        /\ Done(s).cset = job.cset /\ Done(s).stale = job.stale /\ Done(s).was = job.was
    BY <1>2, DoneDoes DEF Goes
  <2> QED
    BY <1>1, <1>2, <1>11, <2>1, LoadedPut
<1> QED
  BY <1>1, <1>3, <1>4, <1>5, <1>8, <1>9, <1>10, <1>11, <1>12, <1>13 DEF h, place

LEMMA RunPhaseStep == ASSUME IInv, NEW s \in Phases, RunPhase(s) PROVE IInv'
<1> DEFINE place == PlaceOf(s)
           h == dir[place]
           g == dir'[place]
           here == BuildDir(job.pf)
           theirs == UnmergeDir(job.old)
<1>1. /\ Next_(s) /\ ~(job.what = "localize" /\ s = "setup")
      /\ Goes(job', job, s) /\ job'.cset = job.cset /\ job'.stale = job.stale /\ job'.was = job.was
      /\ s = "setup" => job'.loaded = None
      /\ s # "setup" => /\ h.env \in Envs /\ job'.loaded.env = h.env.id
                        /\ job'.loaded.of = IF s \in {"prerm", "postrm"} THEN "old" ELSE "new"
      /\ dir' \in DirsType /\ \A q \in Places : q # place => dir'[q] = dir[q]
      /\ h \in Dirs /\ g \in Dirs /\ g.env \in Envs
      /\ g.image = IF s = "install" THEN h.image \cup {<<job.id, "all">>}
                   ELSE IF s = "preinst" THEN h.image \cup {<<job.id, "preinst">>} ELSE h.image
      /\ g.env.id = IF s = "setup" THEN job.id ELSE h.env.id
      /\ g.env.phases = IF s = "setup" THEN <<"setup">> ELSE IF s = "postrm" THEN h.env.phases ELSE Append(h.env.phases, s)
      /\ UNCHANGED <<installed, runs, faults>>
  BY RunPhaseDoes
<1>2. /\ job # None /\ job \in Jobs /\ Working(job, dir, installed) /\ Planned(job) /\ Closed(job) /\ Loading(job)
      /\ here \in Places /\ job.pf \in PFs /\ s \in DOMAIN job.needs /\ s \notin job.done
      /\ (job.needs[s] # None => job.needs[s] \in job.done) /\ (job.old # None => theirs \in Places /\ job.old \in PFs)
  BY <1>1, Running
<1>3. /\ place \in Places
      /\ s \in {"prerm", "postrm"} => place = theirs /\ job.old # None
      /\ s \notin {"prerm", "postrm"} => place = here
      /\ job.what \in {"build", "pebuild", "localize", "config"} => s \notin {"prerm", "postrm"}
  BY <1>1, PlaceIs
<1>4. here # theirs
  BY <1>2, PlacesApart DEF Jobs
<1> HIDE DEF here, theirs, place
<1>5. Typed'
  BY <1>1 DEF IInv, Typed, Goes
<1>6. Planned(job') /\ Closed(job')
  BY <1>1, <1>2, StillPlanned
<1>7. s # "start" /\ s # "engine" /\ s # "repo_add" /\ s # "finalize"
  BY DEF Phases
<1>8. job.what = "build" => Building(job', dir'[here]) /\ Loading(job')
  <2> SUFFICES ASSUME job.what = "build" PROVE Building(job', dir'[here]) /\ Loading(job')
    OBVIOUS
  <2>1. Building(job, h) /\ place = here
    BY <1>2, <1>3 DEF Working, here
  <2>2. s \in {"setup", "unpack", "prepare", "configure", "compile", "test", "install"} /\ job.needs[s] = BuildNeeds[s]
    BY <1>2, StagesOf, BuildStages DEF Phases
  <2>3. job.needs[s] # None /\ job.needs[s] \in job.done
    BY <1>2, <2>2, BuildStages, Names
  <2>4. s # "setup" => "setup" \in job.done
    BY <2>2, <2>3, BuildStages, BuildChain, <1>2
  <2>5. g.env.id = job.id /\ (s # "setup" => h.env.id = job.id)
    BY <1>1, <2>1, <2>4 DEF Building
  <2>6. /\ g.image = IF s = "install" THEN h.image \cup {<<job.id, "all">>} ELSE h.image
        /\ g.env.phases = IF s = "setup" THEN <<"setup">> ELSE Append(h.env.phases, s)
    BY <1>1, <2>2
  <2>7. Building(job', g)
    BY <1>1, <1>2, <2>1, <2>3, <2>5, <2>6, BuildingRuns
  <2>8. Loading(job')
    BY <1>1, <2>2, <2>5 DEF Loading, Goes
  <2> QED
    BY <2>1, <2>7, <2>8
<1>9. job.what # "localize"
  BY <1>1, <1>2, StagesOf, LocalizeStages DEF Phases
<1>10. job.what = "merge" => /\ Merging(job', dir'[here]) /\ Removing(job', dir'[theirs], installed') /\ Loading(job')
  <2> SUFFICES ASSUME job.what = "merge"
               PROVE  Merging(job', dir'[here]) /\ Removing(job', dir'[theirs], installed') /\ Loading(job')
    OBVIOUS
  <2>1. Merging(job, dir[here]) /\ Removing(job, dir[theirs], installed)
    BY <1>2 DEF Working, here, theirs
  <2>2. /\ s \in {"preinst", "postinst", "prerm", "postrm"} /\ "engine" \in job.done /\ "start" \in job.done
        /\ s = "postinst" => "preinst" \in job.done /\ "repo_add" \in job.done
    BY <1>2, <1>7, MergeAfter DEF Phases
  <2>3. CASE s \in {"preinst", "postinst"}
    <3>1. place = here /\ s \notin {"setup", "install", "postrm", "prerm"}
      BY <1>3, <2>3
    <3>2. h = dir[here] /\ g = dir'[here]
      BY <3>1
    <3>3. /\ g.image = IF s = "preinst" THEN dir[here].image \cup {<<job.id, "preinst">>} ELSE dir[here].image
          /\ g.env.id = dir[here].env.id /\ g.env.phases = Append(dir[here].env.phases, s)
      BY <1>1, <3>1, <3>2
    <3>4. Merging(job', g)
      <4> HIDE DEF g, h
      <4>1. /\ job \in Jobs /\ job.what = "merge" /\ Merging(job, dir[here]) /\ "engine" \in job.done
            /\ s \in {"preinst", "postinst"} /\ (s = "postinst" => "repo_add" \in job.done /\ "preinst" \in job.done)
            /\ s \notin job.done /\ Goes(job', job, s) /\ job'.stale = job.stale /\ job'.cset = job.cset
            /\ g \in Dirs /\ g.env \in Envs
        BY <1>1, <1>2, <2>1, <2>2, <2>3
      <4> QED
        BY <3>3, <4>1, MergingRuns
    <3>5. Loading(job')
      BY <1>1, <2>1, <3>1, <3>2 DEF Loading, Goes, Merging
    <3>6. job.old # None => dir'[theirs] = dir[theirs]
      BY <1>1, <1>2, <1>4, <3>1
    <3>7. Removing(job', dir'[theirs], installed')
      BY <1>1, <2>1, <2>2, <3>6 DEF Removing, Goes
    <3> QED
      BY <3>2, <3>4, <3>5, <3>7
  <2>4. CASE s \in {"prerm", "postrm"}
    <3>1. place = theirs /\ job.old # None
      BY <1>3, <2>4
    <3>2. h = dir[theirs] /\ g = dir'[theirs] /\ dir'[here] = dir[here]
      BY <1>1, <1>2, <1>4, <3>1
    <3>3. Alike(dir[here], dir'[here])
      BY <2>1, <3>2 DEF Alike, Merging
    <3>4. Merging(job', dir'[here])
      BY <1>1, <1>2, <1>7, <2>1, <3>3, MergingPasses
    <3>5. h.env.id = job.was /\ g.env.id = h.env.id
      BY <1>1, <2>1, <2>2, <2>4, <3>1, <3>2 DEF Removing
    <3>6. Removing(job', dir'[theirs], installed')
      BY <1>1, <2>2, <3>2, <3>5 DEF Removing, Goes
    <3>7. Loading(job')
      BY <1>1, <2>2, <2>4, <3>5 DEF Loading, Goes
    <3> QED
      BY <3>4, <3>6, <3>7
  <2> QED
    BY <2>2, <2>3, <2>4
<1>11. job.what = "unmerge" => Removing(job', dir'[theirs], installed') /\ Loading(job')
  <2> SUFFICES ASSUME job.what = "unmerge" PROVE Removing(job', dir'[theirs], installed') /\ Loading(job')
    OBVIOUS
  <2>1. s \in {"prerm", "postrm"} /\ "start" \in job.done /\ job.old # None
    BY <1>2, <1>7, UnmergeAfter DEF Phases
  <2>2. place = theirs /\ h.env.id = job.was /\ g.env.id = h.env.id
    BY <1>1, <1>2, <1>3, <2>1 DEF Working, Removing, theirs
  <2> QED
    BY <1>1, <2>1, <2>2 DEF Removing, Loading, Goes
<1>12. job.what = "config" => Configuring(job', dir'[here], installed') /\ Loading(job')
  <2> SUFFICES ASSUME job.what = "config" PROVE Configuring(job', dir'[here], installed') /\ Loading(job')
    OBVIOUS
  <2>1. s = "config" /\ "start" \in job.done /\ place = here
    BY <1>2, <1>3, <1>7, ConfigAfter DEF Phases
  <2>2. Configuring(job, h, installed)
    BY <1>2, <2>1 DEF Working, here
  <2> QED
    BY <1>1, <2>1, <2>2 DEF Configuring, Loading, Goes
<1>13. job.what = "pebuild" => Loading(job')
  BY <1>1 DEF Loading, Goes
<1>14. job.what \notin {"merge", "unmerge"} => Removing(job', dir'[theirs], installed')
  BY <1>1, <1>2 DEF Removing, Planned, Goes
<1>15. job'.what = job.what /\ BuildDir(job'.pf) = here /\ UnmergeDir(job'.old) = theirs
  BY <1>1 DEF Goes, here, theirs
<1>16. job.what \in {"build", "pebuild", "localize", "merge", "unmerge", "config"}
  BY <1>2 DEF Jobs, Whats
<1>17. Working(job', dir', installed')
  BY <1>6, <1>8, <1>9, <1>10, <1>11, <1>12, <1>13, <1>14, <1>15, <1>16 DEF Working
<1> QED
  BY <1>5, <1>17, <1>1, Kept DEF IInv

\* A stage that leaves the directories as they are, but for marks, leaves the
\* command knowing what it knew; what it merges it may take from the image.
LEMMA AlikeKeeps ==
    ASSUME IInv, NEW s, Next_(s), s \notin {"start", "engine"}, job.what = "build" => s = "test",
           \A q \in Places : Alike(dir[q], dir'[q]),
           Goes(job', job, s), job'.stale = job.stale, job'.loaded = job.loaded, job'.was = job.was,
           job'.cset = job.cset \/ job'.cset = dir[BuildDir(job.pf)].image,
           NEW inst, job.what = "config" => inst = installed
    PROVE  Working(job', dir', inst)
<1> DEFINE here == BuildDir(job.pf)
           theirs == UnmergeDir(job.old)
<1>1. /\ job \in Jobs /\ Working(job, dir, installed) /\ Planned(job) /\ Closed(job) /\ Loading(job)
      /\ here \in Places /\ job.pf \in PFs /\ s \in DOMAIN job.needs /\ s \notin job.done
      /\ (job.needs[s] # None => job.needs[s] \in job.done) /\ (job.old # None => theirs \in Places)
  BY Running
<1>2. Planned(job') /\ Closed(job') /\ Loading(job')
  BY <1>1, StillPlanned, LoadingKept
<1>3. Alike(dir[here], dir'[here]) /\ (job.old # None => Alike(dir[theirs], dir'[theirs]))
  BY <1>1
<1>4. job.what = "build" => Building(job', dir'[here])
  <2>1. job.what = "build" => job.needs["test"] # None
    BY <1>1, BuildStages, Names DEF Planned
  <2> QED
    BY <1>1, <1>3, <2>1, BuildingSkips DEF Working
<1>5. job.what = "localize" => Localizing(job', dir'[here])
  BY <1>1, <1>3, LocalizingSkips DEF Working
<1>6. job.what = "merge" => Merging(job', dir'[here])
  BY <1>1, <1>3, MergingPasses DEF Working
<1>7. job.what = "config" => Configuring(job', dir'[here], inst)
  <2>1. ASSUME job.what = "config" PROVE "start" \in job.done
    BY <1>1, <2>1, ConfigAfter
  <2> QED
    BY <1>1, <1>3, <2>1, Names DEF Working, Configuring, Goes, Alike
<1>8. Removing(job', dir'[theirs], inst)
  <2>1. CASE job.old = None
    BY <2>1 DEF Removing, Goes
  <2>2. CASE job.old # None
    <3>1. job.what \in {"merge", "unmerge"}
      BY <1>1, <2>2 DEF Planned
    <3>2. "start" \in job.done
      BY <1>1, <3>1, MergeAfter, UnmergeAfter
    <3>3. dir[theirs] \in Dirs /\ dir[theirs].env \in Envs /\ dir[theirs].env.id = job.was
      BY <1>1, <2>2, <3>2 DEF Working, Removing
    <3>4. dir'[theirs] \in Dirs /\ dir'[theirs].env = dir[theirs].env
      BY <1>3, <2>2, <3>3, Names DEF Alike
    <3> QED
      BY <3>2, <3>3, <3>4 DEF Removing, Goes
  <2> QED
    BY <2>1, <2>2
<1>9. job'.what = job.what /\ BuildDir(job'.pf) = here /\ UnmergeDir(job'.old) = theirs
  BY DEF Goes
<1> QED
  BY <1>2, <1>4, <1>5, <1>6, <1>7, <1>8, <1>9 DEF Working

LEMMA SkipKeeps ==
    ASSUME IInv, NEW s, Next_(s), s \in Optional \/ (job.what = "localize" /\ s = "setup"),
           dir' \in DirsType, \A q \in Places : Alike(dir[q], dir'[q]),
           job' = [Done(s) EXCEPT !.skipped = @ \cup {s}], UNCHANGED installed, runs' \in Nat, faults' \in Nat
    PROVE  IInv'
<1>1. job \in Jobs /\ s \in StageNames /\ s \in DOMAIN job.needs /\ Planned(job)
  BY Running
<1>2. s \notin {"start", "engine"} /\ (job.what = "build" => s = "test")
  <2>1. job.what = "build" => s \in DOMAIN BuildNeeds
    BY <1>1, StagesOf
  <2> QED
    BY <2>1, BuildStages DEF Optional
<1>3. /\ Goes(job', job, s) /\ job'.stale = job.stale /\ job'.loaded = job.loaded /\ job'.was = job.was /\ job'.cset = job.cset
  <2>1. /\ Goes(Done(s), job, s) /\ Done(s) \in Jobs /\ Done(s).loaded = job.loaded
        /\ Done(s).cset = job.cset /\ Done(s).stale = job.stale /\ Done(s).was = job.was
    BY <1>1, DoneDoes DEF Goes
  <2> QED
    BY <1>1, <2>1, SkippedPut
<1>4. Working(job', dir', installed')
  BY <1>2, <1>3, AlikeKeeps
<1>5. Typed'
  BY <1>3 DEF IInv, Typed, Goes
<1> QED
  BY <1>4, <1>5, Kept DEF IInv

LEMMA SelfAlike == IInv => \A q \in Places : Alike(dir[q], dir[q])
BY DEF IInv, Typed, DirsType, Alike

LEMMA PassOverStep == ASSUME IInv, NEW s \in Phases, PassOver(s) PROVE IInv'
<1>1. /\ Next_(s) /\ (s \in Optional \/ (job.what = "localize" /\ s = "setup"))
      /\ dir' = MarkIn(dir, PlaceOf(s), s) /\ job' = [Done(s) EXCEPT !.skipped = @ \cup {s}] /\ UNCHANGED <<installed, runs, faults>>
  BY DEF PassOver
<1>2. PlaceOf(s) \in Places /\ s \in StageNames /\ dir \in DirsType
  BY <1>1, PlaceIs, Running DEF IInv, Typed
<1>3. dir' \in DirsType /\ \A q \in Places : Alike(dir[q], dir'[q])
  BY <1>1, <1>2, MarkDoes
<1> QED
  BY <1>1, <1>3, SkipKeeps DEF IInv, Typed

LEMMA PhaseFailsStep == ASSUME IInv, NEW s \in Phases, PhaseFails(s) PROVE IInv'
<1> DEFINE place == PlaceOf(s)
           h == dir[place]
           l == Leaves(s, h, "part")
           g == [l EXCEPT !.patched = h.patched]
<1>1. /\ Next_(s)
      /\ dir' = IF job.what = "config" THEN Cleaned(dir, {place})
                ELSE IF h = None THEN dir ELSE [dir EXCEPT ![place] = g]
      /\ Fail \/ (s \in {"postrm", "test"} /\ Fault /\ job' = [Done(s) EXCEPT !.skipped = @ \cup {s}])
      /\ UNCHANGED <<installed, runs>>
  BY DEF PhaseFails
<1>2. place \in Places /\ job \in Jobs /\ dir \in DirsType
  BY <1>1, PlaceIs, Running DEF IInv, Typed
<1> HIDE DEF place
<1>3. h # None => g \in Dirs /\ g.env = h.env /\ (s \in {"postrm", "test"} => g.image = h.image)
  <2>1. h # None => h \in Dirs
    BY <1>2 DEF DirsType
  <2>2. h # None => l \in Dirs /\ l.env = h.env /\ (s \in {"postrm", "test"} => l.image = h.image)
    BY <1>2, <2>1, LeavesDoes
  <2> HIDE DEF l, h
  <2> QED
    BY <2>1, <2>2 DEF Dirs
<1> HIDE DEF g
<1>4. dir' \in DirsType
  BY <1>1, <1>2, <1>3 DEF DirsType, Cleaned
<1>5. faults' \in Nat /\ runs' \in Nat /\ UNCHANGED installed
  BY <1>1 DEF Fail, Fault, IInv, Typed
<1>6. CASE Fail
  BY <1>4, <1>5, <1>6, Ended DEF Fail
<1>7. CASE s \in {"postrm", "test"} /\ job' = [Done(s) EXCEPT !.skipped = @ \cup {s}]
  <2>0. job.what # "config"
    <3>1. job.what = "config" => s \in {"start", "config", "finish"}
      BY <1>1, Running, ConfigAfter
    <3> QED
      BY <1>7, <3>1, Names
  <2>1. \A q \in Places : Alike(dir[q], dir'[q])
    BY <1>1, <1>2, <1>3, <1>7, <2>0, Names DEF Alike, DirsType
  <2>2. s \in Optional
    BY <1>7 DEF Optional
  <2> QED
    BY <1>1, <1>4, <1>5, <1>7, <2>1, <2>2, SkipKeeps
<1> QED
  BY <1>1, <1>6, <1>7

LEMMA FinalizeStep == ASSUME IInv, Finalize PROVE IInv'
<1> DEFINE here == BuildDir(job.pf)
           h == dir[here]
           e == IF job.what = "localize" THEN h.env ELSE None
<1>1. PICK old \in PFs \cup {None} :
        /\ old # None => installed[old] # None
        /\ job' = [job EXCEPT !.what = "merge", !.needs = IF old = None THEN InstallNeeds ELSE ReplaceNeeds, !.done = {}, !.old = old, !.env = e]
  BY DEF Finalize
<1>2. job.what \in {"build", "localize"} /\ Next_("finalize") /\ dir' = MarkIn(dir, here, "finalize") /\ UNCHANGED <<installed, runs, faults>>
  BY DEF Finalize
<1>3. /\ job # None /\ job \in Jobs /\ Working(job, dir, installed) /\ Planned(job) /\ Closed(job) /\ Loading(job)
      /\ here \in Places /\ job.pf \in PFs /\ "finalize" \in StageNames
      /\ "finalize" \in DOMAIN job.needs /\ (job.needs["finalize"] # None => job.needs["finalize"] \in job.done)
  BY <1>2, Running
<1>4. dir' \in DirsType /\ Alike(h, dir'[here])
  BY <1>2, <1>3, MarkDoes DEF IInv, Typed
<1>5. ASSUME job.what = "build"
      PROVE  /\ job.id # BinId(job.pf) /\ job.env = None /\ ~job.stale /\ h \in Dirs /\ h.image = {<<job.id, "all">>}
             /\ h.env \in Envs /\ h.env.id = job.id /\ h.env.phases \in Whole
  <2>1. job.needs = BuildNeeds
    BY <1>3, <1>5 DEF Planned
  <2>2. "install" \in job.done
    BY <1>3, <2>1, BuildStages, Names
  <2>3. "start" \in job.done /\ "setup" \in job.done
    BY <1>3, <1>5, <2>2, BuildChain
  <2>4. Trail(job.done) = Whole
    BY <2>2, TrailIs
  <2> QED
    BY <1>3, <1>5, <2>2, <2>3, <2>4 DEF Working, Building
<1>6. ASSUME job.what = "localize"
      PROVE  job.id = BinId(job.pf) /\ h \in Dirs /\ h.env = BinEnv(job.pf) /\ h.env \in Envs /\ h.env.id = job.id
  <2>1. job.needs = LocalizeNeeds /\ "setup" \in job.done
    BY <1>3, <1>6, LocalizeStages, Names DEF Planned
  <2>2. "start" \in job.done
    BY <1>3, <1>6, <2>1, LocalizeStages, Names DEF Closed
  <2> QED
    BY <1>3, <1>6, <2>2, BinIs DEF Working, Localizing
<1>7. e \in Envs \cup {None} /\ (job.what = "build" => e = None) /\ (job.what = "localize" => e = BinEnv(job.pf))
  BY <1>6
<1> HIDE DEF e
<1>8. /\ job' \in Jobs /\ job'.what = "merge" /\ job'.pf = job.pf /\ job'.id = job.id /\ job'.done = {} /\ job'.old = old
      /\ job'.needs = (IF old = None THEN InstallNeeds ELSE ReplaceNeeds) /\ job'.env = e /\ job'.stale = job.stale
      /\ job'.loaded = job.loaded
  <2>1. "merge" \in Whats /\ (IF old = None THEN InstallNeeds ELSE ReplaceNeeds) \in Plans
    BY DEF Whats, Plans
  <2> QED
    BY <1>1, <1>3, <1>7, <2>1 DEF Jobs
<1>9. Typed'
  BY <1>2, <1>4, <1>8 DEF IInv, Typed
<1>10. Merging(job', dir'[here])
  <2>1. h \in Dirs /\ h.env \in Envs /\ h.env.id = job.id
    BY <1>2, <1>5, <1>6
  <2>2. dir'[here] \in Dirs /\ dir'[here].image = h.image /\ dir'[here].env = h.env
    BY <1>4, <2>1, Names DEF Alike
  <2>3. CASE job.what = "build"
    <3>1. <<job.id, "all">> \in Files(job.id) /\ h.env.phases \in Ready
      BY <1>5, <2>3 DEF Files, Ready
    <3> HIDE DEF h, here
    <3> QED
      BY <1>5, <1>7, <1>8, <2>1, <2>2, <2>3, <3>1 DEF Merging
  <2>4. CASE job.what = "localize"
    BY <1>6, <1>7, <1>8, <2>1, <2>2, <2>4 DEF Merging
  <2> QED
    BY <1>2, <2>3, <2>4
<1>11. Planned(job') /\ Closed(job') /\ Loading(job') /\ Removing(job', dir'[UnmergeDir(job'.old)], installed')
  BY <1>1, <1>2, <1>3, <1>8 DEF Planned, Closed, Loading, Removing
<1>12. Working(job', dir', installed')
  BY <1>8, <1>10, <1>11 DEF Working
<1> QED
  BY <1>2, <1>9, <1>12, Kept DEF IInv

LEMMA FinalizePebuildStep == ASSUME IInv, FinalizePebuild PROVE IInv'
<1>1. /\ job.what = "pebuild" /\ Next_("finalize") /\ dir' = MarkIn(dir, BuildDir(job.pf), "finalize")
      /\ job' = Done("finalize") /\ UNCHANGED <<installed, runs, faults>>
  BY DEF FinalizePebuild
<1>2. job \in Jobs /\ "finalize" \in StageNames /\ BuildDir(job.pf) \in Places
  BY <1>1, Running
<1>3. dir' \in DirsType /\ \A q \in Places : Alike(dir[q], dir'[q])
  BY <1>1, <1>2, MarkDoes DEF IInv, Typed
<1>4. /\ Goes(job', job, "finalize") /\ job'.stale = job.stale /\ job'.loaded = job.loaded /\ job'.was = job.was /\ job'.cset = job.cset
  BY <1>1, <1>2, DoneDoes
<1>5. Working(job', dir', installed')
  BY <1>1, <1>3, <1>4, AlikeKeeps
<1>6. Typed'
  BY <1>1, <1>3, <1>4 DEF IInv, Typed, Goes
<1> QED
  BY <1>1, <1>5, <1>6, Kept DEF IInv

LEMMA EngineStep == ASSUME IInv, Engine PROVE IInv'
<1> DEFINE here == BuildDir(job.pf)
           h == dir[here]
           all == <<job.id, "all">>
           i == h.image \cup {all}
           g == [h EXCEPT !.image = i]
           c == IF IsBinary THEN {all} ELSE h.image
           b == (IsBinary /\ h.image # {})
<1>1. /\ job.what = "merge" /\ Next_("engine")
      /\ IsBinary => dir' = [dir EXCEPT ![here].image = Unpacked(job.pf)]
      /\ ~IsBinary => dir' = dir
      /\ job' = [Done("engine") EXCEPT !.cset = c, !.stale = b] /\ UNCHANGED <<installed, runs, faults>>
  BY DEF Engine
<1>2. /\ job # None /\ job \in Jobs /\ Working(job, dir, installed) /\ Planned(job) /\ Closed(job) /\ Loading(job)
      /\ here \in Places /\ job.pf \in PFs /\ "engine" \in StageNames /\ "engine" \notin job.done
      /\ dir \in DirsType /\ Merging(job, h)
      /\ job.old # None => UnmergeDir(job.old) \in Places
  BY <1>1, Running DEF Working, IInv, Typed
<1>3. h \in Dirs /\ h.image \subseteq Items /\ all \in Items
  BY <1>2 DEF Merging, Dirs, Jobs, Items
<1>4. IsBinary => dir' = [dir EXCEPT ![here] = g]
  BY <1>1, <1>2 DEF Unpacked, IsBinary, DirsType
<1>5. g \in Dirs /\ g.image = i /\ g.env = h.env
  BY <1>3 DEF Dirs
<1>6. /\ dir' \in DirsType
      /\ IsBinary => dir'[here] = g
      /\ ~IsBinary => dir'[here] = h
      /\ job.old # None => dir'[UnmergeDir(job.old)] = dir[UnmergeDir(job.old)]
  <2>1. job.old # None => UnmergeDir(job.old) # here
    BY <1>2, PlacesApart DEF Jobs
  <2> HIDE DEF g, here
  <2> QED
    BY <1>1, <1>2, <1>4, <1>5, <2>1 DEF DirsType
<1>7. c \in SUBSET Items /\ b \in BOOLEAN
  BY <1>3
<1>8. /\ Goes(job', job, "engine") /\ job'.cset = c /\ (job'.stale <=> b) /\ job'.loaded = job.loaded /\ job'.was = job.was
  <2>1. Goes(Done("engine"), job, "engine") /\ Done("engine") \in Jobs /\ Done("engine").loaded = job.loaded /\ Done("engine").was = job.was
    BY <1>2, DoneDoes DEF Goes
  <2> HIDE DEF c, b
  <2>2. job' = [Done("engine") EXCEPT !.cset = c, !.stale = b]
    BY <1>1
  <2> QED
    BY <1>2, <1>7, <2>1, <2>2 DEF Goes, Jobs
<1>9. Typed'
  BY <1>1, <1>6, <1>8 DEF IInv, Typed, Goes
<1>10. Merging(job', dir'[here])
  <2>1. all \in Files(job.id)
    BY DEF Files
  <2>2. CASE IsBinary
    <3>1. job.id = BinId(job.pf) /\ job.env = BinEnv(job.pf)
      BY <1>2, <2>2 DEF IsBinary, Merging
    <3>2. /\ dir'[here] \in Dirs /\ dir'[here].image = h.image \cup {all} /\ dir'[here].env = h.env
          /\ job'.cset = {all} /\ (job'.stale <=> h.image # {})
      BY <1>5, <1>6, <1>8, <2>2
    <3>3. ~job'.stale => dir'[here].image \subseteq Files(job.id) /\ job'.cset \subseteq Files(job.id)
      BY <2>1, <3>2
    <3> QED
      BY <1>2, <1>8, <3>1, <3>2, <3>3 DEF Merging, Goes
  <2>3. CASE ~IsBinary
    <3>1. job'.cset = h.image /\ ~job'.stale /\ dir'[here] = h /\ job.id # BinId(job.pf)
      BY <1>6, <1>8, <2>3 DEF IsBinary
    <3> HIDE DEF h, here
    <3> QED
      BY <1>2, <1>8, <3>1 DEF Merging, Goes
  <2> QED
    BY <2>2, <2>3
<1>11. Planned(job') /\ Closed(job') /\ Loading(job')
  BY <1>1, <1>2, <1>8, StillPlanned, LoadingKept
<1>12. Removing(job', dir'[UnmergeDir(job'.old)], installed')
  BY <1>1, <1>2, <1>6, <1>8 DEF Working, Removing, Goes
<1>13. Working(job', dir', installed')
  BY <1>1, <1>8, <1>10, <1>11, <1>12 DEF Working, Goes
<1> QED
  BY <1>1, <1>9, <1>13, Kept DEF IInv

LEMMA TransferStep == ASSUME IInv, Transfer PROVE IInv'
<1> DEFINE c == IF "preinst" \in job.skipped THEN job.cset ELSE dir[BuildDir(job.pf)].image
           d == Done("transfer")
<1>1. /\ Next_("transfer") /\ job' = [d EXCEPT !.cset = c] /\ UNCHANGED <<dir, installed, runs, faults>>
  <2>1. Next_("transfer") => d.cset = job.cset
    BY Running, DoneDoes
  <2> QED
    BY <2>1 DEF Transfer
<1>2. /\ job # None /\ job \in Jobs /\ Working(job, dir, installed) /\ Planned(job) /\ "transfer" \in StageNames /\ "transfer" \in DOMAIN job.needs
  BY <1>1, Running
<1>3. job.what = "merge"
  BY <1>2, StagesOf, BuildStages, LocalizeStages, UninstallStages, ConfigStages DEF Jobs, Whats
<1>4. c \in SUBSET Items
  BY <1>2, <1>3 DEF Working, Merging, Dirs, Jobs
<1>5. Goes(d, job, "transfer") /\ d \in Jobs /\ d.stale = job.stale /\ d.loaded = job.loaded /\ d.was = job.was
  BY <1>2, DoneDoes DEF Goes
<1> HIDE DEF d
<1>6. /\ Goes(job', job, "transfer") /\ job'.stale = job.stale /\ job'.loaded = job.loaded /\ job'.was = job.was
      /\ job'.cset = job.cset \/ job'.cset = dir[BuildDir(job.pf)].image
  <2>1. c = job.cset \/ c = dir[BuildDir(job.pf)].image
    OBVIOUS
  <2> HIDE DEF c
  <2> QED
    BY <1>1, <1>2, <1>4, <1>5, <2>1, CsetPut
<1>7. \A q \in Places : Alike(dir[q], dir'[q])
  BY <1>1, SelfAlike
<1>8. Working(job', dir', installed')
  BY <1>1, <1>3, <1>6, <1>7, AlikeKeeps
<1>9. Typed'
  BY <1>1, <1>6 DEF IInv, Typed, Goes
<1> QED
  BY <1>1, <1>8, <1>9, Kept DEF IInv

\* An entry is added once what it is made of has been taken from the image.
LEMMA EntryIs ==
    ASSUME IInv, Next_("repo_add")
    PROVE  Entry \in Entries /\ OneBuild(job.pf, Entry) /\ job.what = "merge"
<1>1. /\ job # None /\ job \in Jobs /\ Working(job, dir, installed) /\ Planned(job) /\ Closed(job)
      /\ "repo_add" \in DOMAIN job.needs /\ "repo_add" \notin job.done
      /\ (job.needs["repo_add"] # None => job.needs["repo_add"] \in job.done)
  BY Running
<1>2. job.what = "merge"
  BY <1>1, StagesOf, BuildStages, LocalizeStages, UninstallStages, ConfigStages DEF Jobs, Whats
<1> DEFINE h == dir[BuildDir(job.pf)]
           e == IF job.env = None THEN h.env ELSE job.env
<1>3. Merging(job, h) /\ "engine" \in job.done
  BY <1>1, <1>2, MergeAfter DEF Working
<1> HIDE DEF h
<1>4. e \in Envs /\ e.id = job.id /\ e.phases \in Ready
  BY <1>1, <1>3, BinIs, Names DEF Merging, Ready, Jobs
<1>5. <<job.id, "all">> \in job.cset /\ (job.cset \subseteq Files(job.id) \/ job.id = BinId(job.pf))
  BY <1>3 DEF Merging
<1>6. Entry = [id |-> job.id, image |-> job.cset, env |-> e]
  BY DEF Entry, h
<1> HIDE DEF e
<1>7. job.id \in Ids /\ job.cset \in SUBSET Items
  BY <1>1 DEF Jobs
<1> QED
  BY <1>2, <1>4, <1>5, <1>6, <1>7 DEF Entries, OneBuild

LEMMA RepoAddStep == ASSUME IInv, RepoAdd PROVE IInv'
<1>1. /\ Next_("repo_add") /\ installed' = [installed EXCEPT ![job.pf] = Entry] /\ job' = Done("repo_add")
      /\ UNCHANGED <<dir, runs, faults>>
  BY DEF RepoAdd
<1>2. job \in Jobs /\ job.pf \in PFs /\ "repo_add" \in StageNames
  BY <1>1, Running
<1>3. Entry \in Entries /\ OneBuild(job.pf, Entry) /\ job.what = "merge"
  BY <1>1, EntryIs
<1>4. /\ Goes(job', job, "repo_add") /\ job'.stale = job.stale /\ job'.loaded = job.loaded /\ job'.was = job.was /\ job'.cset = job.cset
  BY <1>1, <1>2, DoneDoes
<1>5. \A q \in Places : Alike(dir[q], dir'[q])
  BY <1>1, SelfAlike
<1>6. Working(job', dir', installed')
  BY <1>1, <1>3, <1>4, <1>5, AlikeKeeps
<1>7. Typed'
  BY <1>1, <1>2, <1>3, <1>4 DEF IInv, Typed, Goes
<1>8. \A p \in PFs : installed'[p] # None => OneBuild(p, installed'[p])
  BY <1>1, <1>2, <1>3 DEF IInv, Typed
<1> QED
  BY <1>6, <1>7, <1>8, Kept

LEMMA RepoRemoveStep == ASSUME IInv, RepoRemove PROVE IInv'
<1>1. /\ Next_("repo_remove") /\ job' = Done("repo_remove") /\ UNCHANGED <<dir, runs, faults>>
      /\ installed' = installed \/ installed' = [installed EXCEPT ![job.old] = None]
  BY DEF RepoRemove
<1>2. job \in Jobs /\ "repo_remove" \in StageNames /\ Planned(job) /\ "repo_remove" \in DOMAIN job.needs
  BY <1>1, Running
<1>3. job.what \in {"merge", "unmerge"}
  BY <1>2, StagesOf, BuildStages, LocalizeStages, ConfigStages DEF Jobs, Whats
<1>4. /\ Goes(job', job, "repo_remove") /\ job'.stale = job.stale /\ job'.loaded = job.loaded /\ job'.was = job.was /\ job'.cset = job.cset
  BY <1>1, <1>2, DoneDoes
<1>5. \A q \in Places : Alike(dir[q], dir'[q])
  BY <1>1, SelfAlike
<1>6. Working(job', dir', installed')
  BY <1>1, <1>3, <1>4, <1>5, AlikeKeeps
<1>7. Typed'
  BY <1>1, <1>4 DEF IInv, Typed, Goes
<1>8. \A p \in PFs : installed'[p] # None => OneBuild(p, installed'[p])
  BY <1>1 DEF IInv, Typed
<1> QED
  BY <1>6, <1>7, <1>8, Kept

LEMMA EndStep == ASSUME IInv, job # None, Finish \/ PebuildEnds \/ Killed \/ KilledWiping \/ PrepareUnpatched PROVE IInv'
<1>1. dir \in DirsType /\ runs \in Nat /\ faults \in Nat /\ job \in Jobs
  BY DEF IInv, Typed
<1>2. BuildDir(job.pf) \in Places
  BY <1>1, PlacesApart DEF Jobs
<1>3. job' = None /\ UNCHANGED installed /\ runs' \in Nat /\ faults' \in Nat
  BY <1>1 DEF Finish, PebuildEnds, Killed, KilledWiping, PrepareUnpatched, Fail, Fault
<1>4. CASE Finish
  BY <1>1, <1>3, <1>4, Ended DEF Finish, Cleaned, DirsType
<1>5. CASE PebuildEnds \/ Killed
  BY <1>1, <1>3, <1>5, Ended DEF PebuildEnds, Killed
<1>6. CASE KilledWiping
  <2> DEFINE h == dir[BuildDir(job.pf)]
  <2>1. PICK gone \in SUBSET {"image", "env", "marks"} :
          dir' = [dir EXCEPT ![BuildDir(job.pf)] =
                    [image |-> IF "image" \in gone THEN {} ELSE @.image, env |-> IF "env" \in gone THEN None ELSE @.env,
                     marks |-> IF "marks" \in gone THEN {} ELSE @.marks, patched |-> @.patched /\ "env" \notin gone]]
    BY <1>6 DEF KilledWiping
  <2> DEFINE i == IF "image" \in gone THEN {} ELSE h.image
             e == IF "env" \in gone THEN None ELSE h.env
             m == IF "marks" \in gone THEN {} ELSE h.marks
             b == (h.patched /\ "env" \notin gone)
             g == [image |-> i, env |-> e, marks |-> m, patched |-> b]
  <2>2. h \in Dirs
    BY <1>1, <1>2, <1>6 DEF KilledWiping, DirsType
  <2>3. dir' = [dir EXCEPT ![BuildDir(job.pf)] = g]
    BY <2>1
  <2>4. i \in SUBSET Items /\ e \in Envs \cup {None} /\ m \in SUBSET StageNames /\ b \in BOOLEAN
    BY <2>2 DEF Dirs
  <2> HIDE DEF i, e, m, b
  <2>5. g \in Dirs
    BY <2>4 DEF Dirs
  <2> HIDE DEF g
  <2>6. dir' \in DirsType
    BY <1>1, <1>2, <2>3, <2>5, PutDoes
  <2> QED
    BY <1>3, <2>6, Ended
<1>7. CASE PrepareUnpatched
  <2> DEFINE h == dir[BuildDir(job.pf)]
             s == Saved("prepare", h)
             g == [h EXCEPT !.env = s]
  <2>1. h # None /\ h.env # None /\ dir' = [dir EXCEPT ![BuildDir(job.pf)].env = s]
    BY <1>7 DEF PrepareUnpatched
  <2>2. h \in Dirs
    BY <1>1, <1>2, <2>1 DEF DirsType
  <2>3. dir' = [dir EXCEPT ![BuildDir(job.pf)] = g]
    BY <1>1, <1>2, <2>1
  <2>4. s \in Envs
    BY <1>1, <2>1, <2>2, SavedDoes DEF Phases
  <2> HIDE DEF s
  <2>5. g \in Dirs
    BY <2>2, <2>4, EnvPut
  <2> HIDE DEF g
  <2>6. dir' \in DirsType
    BY <1>1, <1>2, <2>3, <2>5, PutDoes
  <2> QED
    BY <1>3, <2>6, Ended
<1> QED
  BY <1>4, <1>5, <1>6, <1>7

-----------------------------------------------------------------------------
LEMMA IInvInit == Init => IInv
<1> SUFFICES ASSUME Init PROVE IInv
  OBVIOUS
<1>1. dir \in DirsType /\ installed \in [PFs -> Entries \cup {None}] /\ \A p \in PFs : installed[p] = None
  BY DEF Init, DirsType
<1>2. job = None /\ runs \in Nat /\ faults \in Nat
  BY DEF Init
<1> QED
  BY <1>1, <1>2 DEF IInv, Typed

LEMMA CommandStep == IInv /\ Commands => IInv'
BY BuildStep, LocalizeStep, UnmergeStep, ConfigStep, PebuildStep DEF Commands

LEMMA IInvNext == IInv /\ [Next]_vars => IInv'
<1> SUFFICES ASSUME IInv, [Next]_vars PROVE IInv'
  OBVIOUS
<1>1. CASE Commands
  BY <1>1, CommandStep
<1>2. CASE job # None /\ Stages
  <2>1. CASE StartBuild \/ StartMerge \/ Finalize \/ FinalizePebuild \/ Engine
    BY <2>1, StartBuildStep, StartMergeStep, FinalizeStep, FinalizePebuildStep, EngineStep
  <2>2. CASE Transfer \/ RepoAdd \/ RepoRemove
    BY <2>2, TransferStep, RepoAddStep, RepoRemoveStep
  <2>3. CASE Finish \/ PebuildEnds
    BY <1>2, <2>3, EndStep
  <2>4. CASE \E s \in Phases : RunPhase(s) \/ PassOver(s)
    BY <2>4, RunPhaseStep, PassOverStep
  <2> QED
    BY <1>2, <2>1, <2>2, <2>3, <2>4 DEF Stages
<1>3. CASE job # None /\ Faults
  <2>1. CASE \E s \in Phases : PhaseFails(s)
    BY <2>1, PhaseFailsStep
  <2>2. CASE PrepareUnpatched \/ Killed \/ KilledWiping
    BY <1>3, <2>2, EndStep
  <2> QED
    BY <1>3, <2>1, <2>2 DEF Faults
<1>4. CASE UNCHANGED vars
  <2>1. UNCHANGED <<dir, installed, job, runs, faults>>
    BY <1>4 DEF vars
  <2>2. Typed'
    BY <2>1 DEF IInv, Typed
  <2> QED
    BY <2>1, <2>2, Kept DEF IInv
<1> QED
  BY <1>1, <1>2, <1>3, <1>4 DEF Next

(* Whatever an earlier command has left in a directory, a command knows    *)
(* from its start, its setup or its engine on what is there.               *)
THEOREM Inductive == Spec => []IInv
<1>1. Init => IInv
  BY IInvInit
<1>2. IInv /\ [Next]_vars => IInv'
  BY IInvNext
<1> QED
  BY <1>1, <1>2, PTL DEF Spec

\* The state is always of its type.
THEOREM TypeCorrect == Spec => []Typed
<1>1. IInv => Typed
  BY DEF IInv
<1> QED
  BY <1>1, Inductive, PTL

(* An entry holds all of one build's files and nobody else's, and so does  *)
(* what is about to be merged, unless it is a binary package unpacked over *)
(* leftovers (setup_workdir, preinst_contents_reset, force_unpacking).     *)
THEOREM OneBuildMerged == Spec => []MergedIsOneBuild
<1>1. IInv => MergedIsOneBuild
  <2> SUFFICES ASSUME IInv PROVE MergedIsOneBuild
    OBVIOUS
  <2>1. \A p \in PFs : installed[p] # None =>
          <<installed[p].id, "all">> \in installed[p].image /\ (installed[p].image \subseteq Files(installed[p].id) \/ installed[p].id = BinId(p))
    BY DEF IInv, OneBuild
  <2>2. ASSUME job # None, job.what = "merge", "transfer" \in job.done, ~job.stale PROVE job.cset \subseteq Files(job.id)
    <3>1. job \in Jobs /\ Planned(job) /\ Closed(job) /\ Merging(job, dir[BuildDir(job.pf)])
      BY <2>2 DEF IInv, Typed, Working
    <3>2. job.needs \in {InstallNeeds, ReplaceNeeds}
      BY <2>2, <3>1 DEF Planned
    <3>3. "engine" \in job.done
      BY <2>2, <3>1, <3>2, InstallStages, ReplaceStages, Names DEF Closed
    <3> QED
      BY <2>2, <3>1, <3>3 DEF Merging
  <2> QED
    BY <2>1, <2>2 DEF MergedIsOneBuild
<1> QED
  BY <1>1, Inductive, PTL

(* A phase runs in the environment of the build it is about, the old one's *)
(* in the one saved when that was merged (_set_op_vars, start).            *)
THEOREM EnvironmentIsOwn == Spec => []OwnEnvironment
<1>1. IInv => OwnEnvironment
  BY DEF IInv, OneBuild, Working, Loading, OwnEnvironment
<1> QED
  BY <1>1, Inductive, PTL

\* What is installed went through all phases, once each and in their order.
THEOREM PhasesInOrder == Spec => []BuiltInOrder
<1>1. IInv => BuiltInOrder
  BY DEF IInv, OneBuild, BuiltInOrder, Ready
<1> QED
  BY <1>1, Inductive, PTL

(* What a stage of a command needs is there, whatever was left in its      *)
(* directories before (start, _setup_env_data_source, _generic_phase).     *)
LEMMA PlaceFilled ==
    ASSUME IInv, NEW s \in NeedsDir \cup {"finalize"}, Next_(s), job.what # "pebuild"
    PROVE  LET h == dir[PlaceOf(s)]
           IN h # None /\ (s \notin {"setup", "engine"} => h.env # None)
<1> DEFINE h == dir[PlaceOf(s)]
<1>1. /\ job \in Jobs /\ Working(job, dir, installed) /\ Planned(job) /\ Closed(job)
      /\ s \in DOMAIN job.needs /\ s \notin job.done
      /\ job.needs[s] # None => job.needs[s] \in job.done
  BY Running
<1>2. s \notin {"start", "repo_remove", "finish"}
  BY DEF NeedsDir, Phases
<1>3. None \notin Dirs /\ None \notin Envs
  BY BuildAssumption
<1>4. SUFFICES h \in Dirs /\ (s \notin {"setup", "engine"} => h.env \in Envs)
  BY <1>3
<1>5. /\ s \in {"prerm", "postrm"} => h = dir[UnmergeDir(job.old)] /\ job.old # None
      /\ s \notin {"prerm", "postrm"} => h = dir[BuildDir(job.pf)]
      /\ job.what \in {"build", "pebuild", "localize", "config"} => s \notin {"prerm", "postrm"}
  BY PlaceIs
<1> HIDE DEF h
<1>6. CASE job.what = "build"
  <2>1. Building(job, h) /\ job.needs = BuildNeeds
    BY <1>1, <1>5, <1>6 DEF Working, Planned
  <2>2. "start" \in job.done /\ (s # "setup" => "setup" \in job.done)
    BY <1>1, <1>2, <1>6, <2>1, BuildStages, BuildChain, Names
  <2> QED
    BY <2>1, <2>2 DEF Building
<1>7. CASE job.what = "localize"
  <2>1. Localizing(job, h) /\ job.needs = LocalizeNeeds
    BY <1>1, <1>5, <1>7 DEF Working, Planned
  <2>2. "start" \in job.done
    BY <1>1, <1>2, <1>7, <2>1, LocalizeStages, Names DEF Closed
  <2>3. BinEnv(job.pf) \in Envs
    BY <1>1, BinIs DEF Jobs
  <2> QED
    BY <2>1, <2>2, <2>3 DEF Localizing
<1>8. CASE job.what = "merge"
  <2>1. CASE s \in {"prerm", "postrm"}
    <3>1. "start" \in job.done
      BY <1>1, <1>8, <2>1, MergeAfter, Names
    <3> QED
      BY <1>1, <1>5, <2>1, <3>1 DEF Working, Removing
  <2>2. CASE s \notin {"prerm", "postrm"}
    BY <1>1, <1>5, <1>8, <2>2 DEF Working, Merging
  <2> QED
    BY <2>1, <2>2
<1>9. CASE job.what = "unmerge"
  <2>1. s \in {"prerm", "postrm"} /\ "start" \in job.done
    BY <1>1, <1>2, <1>9, UnmergeAfter, Names
  <2> QED
    BY <1>1, <1>5, <2>1 DEF Working, Removing
<1>10. CASE job.what = "config"
  <2>1. "start" \in job.done
    BY <1>1, <1>2, <1>10, ConfigAfter, Names
  <2> QED
    BY <1>1, <1>5, <1>10, <2>1 DEF Working, Configuring
<1> QED
  BY <1>1, <1>6, <1>7, <1>8, <1>9, <1>10 DEF Jobs, Whats

(* No command comes to a stage whose directory or environment is missing.  *)
THEOREM NeedsAreThere == Spec => []NothingMissing
<1>1. IInv => NothingMissing
  <2> SUFFICES ASSUME IInv, job # None, job.what # "pebuild"
               PROVE  /\ \A s \in NeedsDir : Next_(s) =>
                           /\ dir[PlaceOf(s)] # None
                           /\ s \notin {"setup", "engine"} => dir[PlaceOf(s)].env # None
                      /\ job.what = "localize" /\ Next_("finalize") =>
                           dir[BuildDir(job.pf)] # None /\ dir[BuildDir(job.pf)].env # None
    BY DEF NothingMissing
  <2>1. ASSUME NEW s \in NeedsDir, Next_(s)
        PROVE  dir[PlaceOf(s)] # None /\ (s \notin {"setup", "engine"} => dir[PlaceOf(s)].env # None)
    BY <2>1, PlaceFilled
  <2>2. ASSUME Next_("finalize")
        PROVE  dir[BuildDir(job.pf)] # None /\ dir[BuildDir(job.pf)].env # None
    <3>1. PlaceOf("finalize") = BuildDir(job.pf)
      BY DEF PlaceOf
    <3> QED
      BY <2>2, <3>1, PlaceFilled
  <2> QED
    BY <2>1, <2>2
<1> QED
  BY <1>1, Inductive, PTL
=============================================================================
