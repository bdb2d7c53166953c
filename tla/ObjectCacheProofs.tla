------------------------- MODULE ObjectCacheProofs --------------------------
(***************************************************************************)
(* The artifact cache, proved for any number of builds, versions, bridges  *)
(* and objects of a version: what is linked was emitted for the version    *)
(* that was checked, and entries heal.                                     *)
(***************************************************************************)
EXTENDS ObjectCache, TLAPS

File == Objects \cup {Torn, NoFile}
Assertion == {Whole, Torn, NoFile}
Build == [phase : Phases, source : Sources \cup {NoFile}, bytes : File, bridge : Assertion,
          disturbed : BOOLEAN, refused : BOOLEAN]

Busy == \A b \in Builders : ~In(b, "idle") => build[b].source \in Sources

\* The type invariant needs to know that a build has a version.
CacheType == TypeOK /\ Busy

LEMMA Constants ==
    /\ \A s \in Sources : Externs[s] \in Bridges
    /\ Torn \notin Objects /\ NoFile \notin Objects
    /\ Torn # NoFile /\ Torn # Whole /\ NoFile # Whole
    BY CacheAssumption DEF Objects, Whole

----------------------------------------------------------------------------
(* Types.                                                                   *)

\* A step of one build gives that build a new record, and at most one file new
\* contents.
BuildStep(b) ==
    \/ Start(b) \/ Interrupted(b) \/ Exit(b)
    \/ FindAssertions(b) \/ PublishAssertions(b)
    \/ Probe(b) \/ ReadObject(b) \/ ReadManifest(b)
    \/ Emit(b) \/ PublishObject(b) \/ PublishManifest(b)
    \/ RefusedObject(b) \/ RefusedManifest(b)
    \/ Link(b) \/ LinkFails(b)

LEMMA NextSplits == Next => (\E b \in Builders : BuildStep(b)) \/ Clean \/ PowerLoss
    BY DEF Next, BuildStep

LEMMA BuildTypes == TypeOK => \A b \in Builders : build[b] \in Build
    BY DEF TypeOK, Build, File, Assertion

LEMMA NewBuildType ==
    ASSUME CacheType, NEW b \in Builders, NEW p \in Build, build' = [build EXCEPT ![b] = p],
           p.phase # "idle" => p.source \in Sources,
           object' \in [Sources -> File], manifest' \in [Sources -> File],
           assertions' \in [Bridges -> Assertion]
    PROVE  CacheType'
<1>1. build' \in [Builders -> Build]
    BY DEF CacheType, TypeOK, Build, File, Assertion
<1>2. Busy'
    BY DEF CacheType, TypeOK, Busy, In
<1> QED
    BY <1>1, <1>2 DEF CacheType, TypeOK, Build, File, Assertion

LEMMA BuildStepType ==
    ASSUME CacheType, NEW b \in Builders, BuildStep(b)
    PROVE  CacheType'
<1> DEFINE q == build[b]
<1>1. /\ q \in Build /\ (~In(b, "idle") => q.source \in Sources)
      /\ object \in [Sources -> File] /\ manifest \in [Sources -> File]
      /\ assertions \in [Bridges -> Assertion] /\ build \in [Builders -> Build]
    BY DEF CacheType, TypeOK, Busy, Build, File, Assertion
<1>2. Idle \in Build /\ Idle.phase = "idle"
    BY DEF Idle, Build, Phases, File, Assertion
<1>3. CASE Start(b)
    <2> PICK s \in Sources : build' = [build EXCEPT ![b].phase = "assert", ![b].source = s]
        BY <1>3 DEF Start
    <2> DEFINE p == [q EXCEPT !.phase = "assert", !.source = s]
    <2>1. p \in Build /\ p.source \in Sources /\ build' = [build EXCEPT ![b] = p]
        BY <1>1 DEF Build, Phases
    <2> HIDE DEF p, q
    <2> QED BY <1>1, <1>3, <2>1, NewBuildType DEF Start
<1>4. CASE Exit(b)
    BY <1>1, <1>2, <1>4, NewBuildType DEF Exit
<1>5. ASSUME NEW phase \in Phases \ {"idle"}, Go(b, phase), ~In(b, "idle"),
             object' \in [Sources -> File], manifest' \in [Sources -> File],
             assertions' \in [Bridges -> Assertion]
      PROVE  CacheType'
    <2> DEFINE p == [q EXCEPT !.phase = phase]
    <2>1. p \in Build /\ p.source \in Sources /\ build' = [build EXCEPT ![b] = p]
        BY <1>1, <1>5 DEF Build, Go
    <2> HIDE DEF p, q
    <2> QED BY <1>5, <2>1, NewBuildType
<1>6. CASE Interrupted(b) \/ FindAssertions(b) \/ Probe(b) \/ LinkFails(b)
    <2>1. \E phase \in Phases \ {"idle"} : Go(b, phase)
        BY <1>6 DEF Interrupted, FindAssertions, Probe, LinkFails, Phases
    <2>2. ~In(b, "idle") /\ UNCHANGED <<object, manifest, assertions>>
        BY <1>6 DEF Interrupted, FindAssertions, Probe, LinkFails, In
    <2> QED BY <1>1, <1>5, <2>1, <2>2
<1>7. CASE PublishAssertions(b)
    <2>1. assertions' \in [Bridges -> Assertion] /\ ~In(b, "idle")
        BY <1>1, <1>7 DEF PublishAssertions, Assertion, In
    <2> QED BY <1>1, <1>5, <1>7, <2>1 DEF PublishAssertions, Phases
<1>8. CASE PublishObject(b)
    <2>1. object' \in [Sources -> File] /\ ~In(b, "idle")
        BY <1>1, <1>8 DEF PublishObject, Build, In
    <2> QED BY <1>1, <1>5, <1>8, <2>1 DEF PublishObject, Phases
<1>9. ASSUME NEW phase \in Phases \ {"idle"}, NEW bytes \in File, ~In(b, "idle"),
             build' = [build EXCEPT ![b].phase = phase, ![b].bytes = bytes],
             object' \in [Sources -> File], manifest' \in [Sources -> File],
             assertions' \in [Bridges -> Assertion]
      PROVE  CacheType'
    <2> DEFINE p == [q EXCEPT !.phase = phase, !.bytes = bytes]
    <2>1. p \in Build /\ p.source \in Sources /\ build' = [build EXCEPT ![b] = p]
        BY <1>1, <1>9 DEF Build
    <2> HIDE DEF p, q
    <2> QED BY <1>9, <2>1, NewBuildType
<1>10. CASE ReadObject(b)
    <2>1. ~In(b, "idle") /\ object[Path(b)] \in File
        BY <1>1, <1>10 DEF ReadObject, In, Path, Identity
    <2> QED BY <1>1, <1>9, <1>10, <2>1 DEF ReadObject, Phases
<1>11. CASE ReadManifest(b)
    <2>1. ~In(b, "idle") /\ NoFile \in File
        BY <1>11 DEF ReadManifest, In, File
    <2> DEFINE to == IF Matches(build[b].bytes, manifest[Path(b)]) THEN "link" ELSE "emit"
    <2>2. to \in Phases \ {"idle"}
        BY DEF Phases
    <2>3. build' = [build EXCEPT ![b].phase = to, ![b].bytes = NoFile]
        BY <1>11 DEF ReadManifest
    <2> HIDE DEF to
    <2> QED BY <1>1, <1>9, <1>11, <2>1, <2>2, <2>3 DEF ReadManifest
<1>12. CASE Emit(b)
    <2>1. PICK v \in Variants :
            build' = [build EXCEPT ![b].phase = "publish",
                                   ![b].bytes = [of |-> build[b].source, variant |-> v]]
        BY <1>12 DEF Emit
    <2>2. ~In(b, "idle")
        BY <1>12 DEF Emit, In
    <2>3. [of |-> build[b].source, variant |-> v] \in File
        BY <1>1, <2>2 DEF File, Objects
    <2> QED BY <1>1, <1>9, <1>12, <2>1, <2>2, <2>3 DEF Emit, Phases
<1>13. CASE PublishManifest(b) \/ RefusedManifest(b)
    <2>1. ~In(b, "idle") /\ NoFile \in File
        BY <1>13 DEF PublishManifest, RefusedManifest, In, File
    <2>2. manifest' \in [Sources -> File]
        BY <1>1, <1>13 DEF PublishManifest, RefusedManifest, Build
    <2> QED BY <1>1, <1>9, <1>13, <2>1, <2>2 DEF PublishManifest, RefusedManifest, Phases
<1>14. CASE RefusedObject(b)
    <2> DEFINE p == [q EXCEPT !.phase = "describe", !.refused = TRUE]
    <2>1. p \in Build /\ p.source \in Sources /\ build' = [build EXCEPT ![b] = p]
        BY <1>1, <1>14 DEF Build, Phases, RefusedObject, In
    <2> HIDE DEF p, q
    <2> QED BY <1>1, <1>14, <2>1, NewBuildType DEF RefusedObject
<1>15. CASE Link(b)
    <2>1. q.source \in Sources
        BY <1>1, <1>15 DEF Link, In
    <2>2. object[Path(b)] \in File /\ assertions[Bridge(b)] \in Assertion
        BY <1>1, <2>1, Constants DEF Path, Identity, Bridge
    <2> DEFINE p == [q EXCEPT !.phase = "linked", !.bytes = object[Path(b)],
                              !.bridge = assertions[Bridge(b)]]
    <2>3. p \in Build /\ p.source \in Sources /\ build' = [build EXCEPT ![b] = p]
        BY <1>1, <1>15, <2>1, <2>2 DEF Build, Phases, Link
    <2> HIDE DEF p, q
    <2> QED BY <1>1, <1>15, <2>3, NewBuildType DEF Link
<1> QED
    BY <1>3, <1>4, <1>6, <1>7, <1>8, <1>10, <1>11, <1>12, <1>13, <1>14, <1>15 DEF BuildStep

\* A file survives, is torn, or is gone.
LEMMA SurvivorsType ==
    ASSUME NEW D, NEW V, NEW file \in [D -> V], NEW f \in Survivors(file)
    PROVE  /\ f \in [D -> V \cup {Torn, NoFile}]
           /\ \A s \in D : f[s] \in {file[s], Torn, NoFile}
    BY DEF Survivors

LEMMA EnvironmentType ==
    ASSUME CacheType, Clean \/ PowerLoss
    PROVE  CacheType'
<1>1. /\ object \in [Sources -> File] /\ manifest \in [Sources -> File]
      /\ assertions \in [Bridges -> Assertion] /\ build \in [Builders -> Build]
    BY DEF CacheType, TypeOK, Build, File, Assertion
<1>2. CASE Clean
    <2>1. /\ object' \in [Sources -> File] /\ manifest' \in [Sources -> File]
          /\ assertions' \in [Bridges -> Assertion]
        BY <1>1, <1>2 DEF Clean, File, Assertion
    <2>2. build' = [b \in Builders |-> [build[b] EXCEPT !.disturbed = ~In(b, "idle")]]
        BY <1>2 DEF Clean, Disturb
    <2>3. ASSUME NEW b \in Builders
          PROVE  /\ [build[b] EXCEPT !.disturbed = ~In(b, "idle")] \in Build
                 /\ build'[b].phase = build[b].phase /\ build'[b].source = build[b].source
        <3>1. build[b] \in Build /\ (~In(b, "idle")) \in BOOLEAN
            BY <1>1
        <3> QED BY <2>2, <3>1 DEF Build
    <2>4. build' \in [Builders -> Build]
        BY <2>2, <2>3
    <2>5. Busy'
        BY <2>3 DEF CacheType, Busy, In
    <2> QED BY <2>1, <2>4, <2>5 DEF CacheType, TypeOK, Build, File, Assertion
<1>3. CASE PowerLoss
    <2>1. /\ object' \in [Sources -> File \cup {Torn, NoFile}]
          /\ manifest' \in [Sources -> File \cup {Torn, NoFile}]
          /\ assertions' \in [Bridges -> Assertion \cup {Torn, NoFile}]
        BY <1>1, <1>3, SurvivorsType DEF PowerLoss
    <2>2. File \cup {Torn, NoFile} = File /\ Assertion \cup {Torn, NoFile} = Assertion
        BY DEF File, Assertion
    <2>3. build' = build /\ Busy'
        BY <1>3 DEF PowerLoss, CacheType, Busy, In
    <2> QED BY <1>1, <2>1, <2>2, <2>3 DEF CacheType, TypeOK, Build, File, Assertion
<1> QED
    BY <1>2, <1>3

LEMMA CacheTypeStep == CacheType /\ [Next]_vars => CacheType'
<1> SUFFICES ASSUME CacheType, [Next]_vars PROVE CacheType'
    OBVIOUS
<1>1. CASE UNCHANGED vars
    BY <1>1 DEF vars, CacheType, TypeOK, Busy, In
<1> QED
    BY <1>1, NextSplits, BuildStepType, EnvironmentType

LEMMA CacheTypeBegins == Init => CacheType
    BY DEF Init, CacheType, TypeOK, Busy, In, Idle, Phases

\* Files and builds keep their types.
THEOREM CacheTypeCorrect == Spec => []TypeOK
<1>1. CacheType => TypeOK
    BY DEF CacheType
<1> QED
    BY <1>1, CacheTypeBegins, CacheTypeStep, PTL DEF Spec

----------------------------------------------------------------------------
(* What builds know of the files.                                           *)

\* A file at an identity is torn, gone, or an object of that version.
FilesInv == \A s \in Sources :
    object[s] \in {Torn, NoFile} \/ (object[s] \in Objects /\ object[s].of = s)

\* The build has seen the object at its identity whole, or published it.
Relies(p) ==
    \/ p.phase = "readManifest" /\ p.bytes # Torn
    \/ p.phase \in {"describe", "link"} /\ ~p.refused

\* The build has seen some object there, or published one.
Expects(p) ==
    \/ p.phase = "readManifest"
    \/ p.phase \in {"describe", "link"} /\ ~p.refused

Asserted == {"probe", "readObject", "readManifest", "emit", "publish", "describe", "link"}

\* No power loss comes while a build runs, so a file it relies on can only be
\* replaced or removed, and a removal disturbs the build.
BuildInv(b) ==
    LET p == build[b] IN
    /\ p.phase \in {"publish", "describe"} => p.bytes \in Objects /\ p.bytes.of = p.source
    /\ Relies(p) => object[p.source] # Torn
    /\ Expects(p) /\ ~p.disturbed => object[p.source] # NoFile
    /\ p.phase = "render" => assertions[Externs[p.source]] # Torn
    /\ p.phase \in Asserted /\ ~p.disturbed => assertions[Externs[p.source]] # NoFile
    /\ p.phase = "linked" =>
          \/ p.bytes \in Objects /\ p.bytes.of = p.source
          \/ p.refused /\ p.bytes = Torn
    /\ p.phase = "failed" /\ ~p.disturbed /\ ~p.refused => assertions[Externs[p.source]] = Torn

CacheInv == CacheType /\ FilesInv /\ \A b \in Builders : BuildInv(b)

\* What another build's step may do to the files: a new object, or the text of a
\* bridge that has none.
FilesGrow ==
    /\ \A s \in Sources : object'[s] = object[s] \/ object'[s] \in Objects
    /\ \A e \in Bridges :
          assertions'[e] = assertions[e] \/ (assertions'[e] = Whole /\ assertions[e] # Torn)

LEMMA OtherBuildKept ==
    ASSUME CacheInv, NEW d \in Builders, build'[d] = build[d], FilesGrow
    PROVE  BuildInv(d)'
<1> DEFINE p == build[d]
<1>1. BuildInv(d)
    BY DEF CacheInv
<1>2. p \in Build /\ (p.phase # "idle" => p.source \in Sources)
    BY BuildTypes DEF CacheInv, CacheType, Busy, In
<1>3. CASE p.phase = "idle"
    BY <1>1, <1>3 DEF BuildInv, Relies, Expects, Asserted
<1>4. CASE p.phase # "idle"
    <2>1. p.source \in Sources /\ Externs[p.source] \in Bridges
        BY <1>2, <1>4, Constants
    <2>2. /\ object'[p.source] = object[p.source] \/ object'[p.source] \notin {Torn, NoFile}
          /\ \/ assertions'[Externs[p.source]] = assertions[Externs[p.source]]
             \/ assertions'[Externs[p.source]] = Whole /\ assertions[Externs[p.source]] # Torn
        BY <2>1, Constants DEF FilesGrow
    <2> QED BY <1>1, <2>2, Constants DEF BuildInv, Relies, Expects
<1> QED
    BY <1>3, <1>4

\* A step of a build that leaves the files alone.
LEMMA QuietStep ==
    ASSUME CacheInv, NEW b \in Builders,
           \/ Start(b) \/ Interrupted(b) \/ Exit(b) \/ FindAssertions(b)
           \/ Probe(b) \/ ReadObject(b) \/ ReadManifest(b)
           \/ Emit(b) \/ RefusedObject(b) \/ Link(b) \/ LinkFails(b)
    PROVE  UNCHANGED <<object, assertions>> /\ BuildInv(b)'
<1> DEFINE p == build[b]
<1>1. UNCHANGED <<object, assertions>>
    BY DEF Start, Interrupted, Exit, FindAssertions, Probe, ReadObject, ReadManifest, Emit,
           RefusedObject, Link, LinkFails
<1>2. p \in Build /\ (p.phase # "idle" => p.source \in Sources) /\ build \in [Builders -> Build]
    BY BuildTypes DEF CacheInv, CacheType, Busy, In, TypeOK, Build, File, Assertion
<1>3. /\ p.phase # "idle" => Externs[p.source] \in Bridges
      /\ p.phase # "idle" => \/ object[p.source] \in {Torn, NoFile}
                             \/ object[p.source] \in Objects /\ object[p.source].of = p.source
      /\ p.phase # "idle" => assertions[Externs[p.source]] \in Assertion
    BY <1>2, Constants DEF CacheInv, CacheType, FilesInv, TypeOK, Assertion
<1>4. BuildInv(b)
    BY DEF CacheInv
<1> HIDE DEF p
<1>5. CASE Start(b) \/ Exit(b)
    <2>1. build'[b].phase \in {"idle", "assert"}
        BY <1>2, <1>5 DEF Start, Exit, Idle, Build, p
    <2> QED BY <1>1, <2>1 DEF BuildInv, Relies, Expects, Asserted
<1>6. ASSUME NEW phase, Go(b, phase)
      PROVE  /\ build'[b].phase = phase /\ build'[b].source = p.source /\ build'[b].bytes = p.bytes
             /\ build'[b].disturbed = p.disturbed /\ build'[b].refused = p.refused
    BY <1>2, <1>6 DEF Go, Build, p
<1>7. CASE Interrupted(b)
    <2>1. Go(b, "failed")
        BY <1>7 DEF Interrupted
    <2>2. ~p.disturbed /\ ~p.refused => assertions[Externs[p.source]] = Torn
        BY <1>7 DEF Interrupted, p
    <2> QED BY <1>1, <1>6, <2>1, <2>2 DEF BuildInv, Relies, Expects, Asserted
<1>8. CASE FindAssertions(b)
    <2>1. p.phase = "assert" /\ Bridge(b) = Externs[p.source]
        BY <1>8 DEF FindAssertions, In, Bridge, p
    <2>2. CASE assertions[Bridge(b)] = NoFile
        BY <1>1, <1>6, <1>8, <2>1, <2>2, Constants
           DEF FindAssertions, BuildInv, Relies, Expects, Asserted
    <2>3. CASE assertions[Bridge(b)] # NoFile
        BY <1>1, <1>6, <1>8, <2>1, <2>3 DEF FindAssertions, BuildInv, Relies, Expects, Asserted
    <2> QED BY <2>2, <2>3
<1>9. CASE Probe(b)
    <2>1. p.phase = "probe" /\ (Go(b, "emit") \/ Go(b, "readObject"))
        BY <1>9 DEF Probe, In, p
    <2> QED BY <1>1, <1>4, <1>6, <2>1 DEF BuildInv, Relies, Expects, Asserted, p
<1>10. CASE LinkFails(b)
    <2>1. p.phase = "link" /\ Go(b, "failed")
        BY <1>10 DEF LinkFails, In, p
    <2>2. object[p.source] \in {NoFile, Torn} \/ assertions[Externs[p.source]] # Whole
        BY <1>10 DEF LinkFails, Path, Identity, Bridge, p
    <2>3. ~p.disturbed /\ ~p.refused => assertions[Externs[p.source]] = Torn
        BY <1>3, <1>4, <2>1, <2>2 DEF BuildInv, Relies, Expects, Asserted, Assertion, p
    <2> QED BY <1>1, <1>6, <2>1, <2>3 DEF BuildInv, Relies, Expects, Asserted
<1>11. CASE ReadObject(b)
    <2>1. /\ build'[b].phase = "readManifest" /\ build'[b].source = p.source
          /\ build'[b].bytes = object[p.source] /\ object[p.source] # NoFile
          /\ build'[b].disturbed = p.disturbed /\ p.phase = "readObject"
        BY <1>2, <1>11 DEF ReadObject, In, Path, Identity, Build, p
    <2> QED BY <1>1, <1>4, <2>1 DEF BuildInv, Relies, Expects, Asserted, p
<1>12. CASE ReadManifest(b)
    <2>1. /\ build'[b].phase = IF Matches(p.bytes, manifest[p.source]) THEN "link" ELSE "emit"
          /\ build'[b].source = p.source /\ build'[b].disturbed = p.disturbed
          /\ p.phase = "readManifest"
        BY <1>2, <1>12 DEF ReadManifest, In, Path, Identity, Build, p
    <2>2. Matches(p.bytes, manifest[p.source]) => p.bytes # Torn
        BY DEF Matches
    <2> QED BY <1>1, <1>4, <2>1, <2>2 DEF BuildInv, Relies, Expects, Asserted, p
<1>13. CASE Emit(b)
    <2>1. PICK v \in Variants :
            build' = [build EXCEPT ![b].phase = "publish",
                                   ![b].bytes = [of |-> build[b].source, variant |-> v]]
        BY <1>13 DEF Emit
    <2>2. p.phase = "emit" /\ p.source \in Sources
        BY <1>2, <1>13 DEF Emit, In, p
    <2> DEFINE o == [of |-> p.source, variant |-> v]
    <2>3. o \in Objects /\ o.of = p.source
        BY <2>2 DEF Objects
    <2>4. /\ build'[b].phase = "publish" /\ build'[b].bytes = o
          /\ build'[b].source = p.source /\ build'[b].disturbed = p.disturbed
        BY <1>2, <2>1 DEF Build, p
    <2> HIDE DEF o
    <2> QED BY <1>1, <1>4, <2>2, <2>3, <2>4 DEF BuildInv, Relies, Expects, Asserted, p
<1>14. CASE RefusedObject(b)
    <2>1. /\ build'[b].phase = "describe" /\ build'[b].bytes = p.bytes /\ build'[b].refused
          /\ build'[b].source = p.source /\ build'[b].disturbed = p.disturbed
          /\ p.phase = "publish"
        BY <1>2, <1>14 DEF RefusedObject, In, Build, p
    <2> QED BY <1>1, <1>4, <2>1 DEF BuildInv, Relies, Expects, Asserted, p
<1>15. CASE Link(b)
    <2>1. /\ build'[b].phase = "linked" /\ build'[b].bytes = object[p.source]
          /\ build'[b].source = p.source /\ build'[b].refused = p.refused
          /\ p.phase = "link" /\ object[p.source] # NoFile
        BY <1>2, <1>15 DEF Link, In, Path, Identity, Build, p
    <2>2. object[p.source] = Torn => p.refused
        BY <1>2, <1>4, <2>1 DEF BuildInv, Relies, Build, p
    <2> QED BY <1>1, <1>3, <2>1, <2>2 DEF BuildInv, Relies, Expects, Asserted
<1> QED
    BY <1>1, <1>5, <1>7, <1>8, <1>9, <1>10, <1>11, <1>12, <1>13, <1>14, <1>15

\* A step of a build that publishes a file.
LEMMA PublishingStep ==
    ASSUME CacheInv, NEW b \in Builders,
           PublishAssertions(b) \/ PublishObject(b) \/ PublishManifest(b) \/ RefusedManifest(b)
    PROVE  FilesGrow /\ FilesInv' /\ BuildInv(b)'
<1> DEFINE p == build[b]
<1>1. /\ p \in Build /\ p.source \in Sources /\ Externs[p.source] \in Bridges
      /\ build \in [Builders -> Build] /\ object \in [Sources -> File]
      /\ assertions \in [Bridges -> Assertion]
    BY BuildTypes, Constants
       DEF CacheInv, CacheType, Busy, In, TypeOK, Build, File, Assertion,
           PublishAssertions, PublishObject, PublishManifest, RefusedManifest
<1>2. BuildInv(b)
    BY DEF CacheInv
<1> HIDE DEF p
<1>3. CASE PublishAssertions(b)
    <2>1. /\ p.phase = "render" /\ object' = object
          /\ assertions' = [assertions EXCEPT ![Externs[p.source]] = Whole]
          /\ build'[b].phase = "probe" /\ build'[b].source = p.source
        BY <1>1, <1>3 DEF PublishAssertions, In, Bridge, Go, Build, p
    <2>2. FilesGrow
        BY <1>1, <1>2, <2>1 DEF BuildInv, FilesGrow, p
    <2>3. assertions'[Externs[p.source]] = Whole
        BY <1>1, <2>1
    <2>4. BuildInv(b)'
        BY <2>1, <2>3, Constants DEF BuildInv, Relies, Expects, Asserted
    <2> QED BY <2>1, <2>2, <2>4 DEF CacheInv, FilesInv
<1>4. CASE PublishObject(b)
    <2>1. /\ p.phase = "publish" /\ assertions' = assertions
          /\ object' = [object EXCEPT ![p.source] = p.bytes]
          /\ build'[b].phase = "describe" /\ build'[b].source = p.source
          /\ build'[b].bytes = p.bytes /\ build'[b].disturbed = p.disturbed
        BY <1>1, <1>4 DEF PublishObject, In, Path, Identity, Go, Build, p
    <2>2. p.bytes \in Objects /\ p.bytes.of = p.source
        BY <1>2, <2>1 DEF BuildInv, p
    <2>3. FilesGrow
        BY <1>1, <2>1, <2>2 DEF FilesGrow
    <2>4. FilesInv'
        BY <1>1, <2>1, <2>2 DEF CacheInv, FilesInv
    <2>5. object'[p.source] \notin {Torn, NoFile}
        BY <1>1, <2>1, <2>2, Constants
    <2>6. BuildInv(b)'
        BY <1>2, <2>1, <2>2, <2>5 DEF BuildInv, Relies, Expects, Asserted, p
    <2> QED BY <2>3, <2>4, <2>6
<1>5. CASE PublishManifest(b) \/ RefusedManifest(b)
    <2>1. /\ p.phase = "describe" /\ assertions' = assertions /\ object' = object
          /\ build'[b].phase = "link" /\ build'[b].source = p.source
          /\ build'[b].refused = p.refused /\ build'[b].disturbed = p.disturbed
        BY <1>1, <1>5 DEF PublishManifest, RefusedManifest, In, Build, p
    <2>2. BuildInv(b)'
        BY <1>2, <2>1 DEF BuildInv, Relies, Expects, Asserted, p
    <2> QED BY <2>1, <2>2 DEF FilesGrow, CacheInv, FilesInv
<1> QED
    BY <1>3, <1>4, <1>5

\* A clean disturbs the builds it runs under; a power loss finds none.
LEMMA EnvironmentStep ==
    ASSUME CacheInv, Clean \/ PowerLoss
    PROVE  FilesInv' /\ \A b \in Builders : BuildInv(b)'
<1>1. object \in [Sources -> File] /\ assertions \in [Bridges -> Assertion] /\ FilesInv
    BY DEF CacheInv, CacheType, TypeOK, File, Assertion
<1>2. CASE Clean
    <2>1. /\ \A s \in Sources : object'[s] = object[s] \/ object'[s] = NoFile
          /\ \A e \in Bridges : assertions'[e] = assertions[e] \/ assertions'[e] = NoFile
        BY <1>1, <1>2 DEF Clean
    <2>2. ASSUME NEW b \in Builders PROVE BuildInv(b)'
        <3> DEFINE p == build[b]
                   q == build'[b]
        <3>1. p \in Build /\ BuildInv(b) /\ (p.phase # "idle" => p.source \in Sources)
            BY BuildTypes DEF CacheInv, CacheType, Busy, In
        <3>2. q = [p EXCEPT !.disturbed = ~In(b, "idle")]
            BY <1>2 DEF Clean, Disturb
        <3>3. /\ q.phase = p.phase /\ q.source = p.source /\ q.bytes = p.bytes
              /\ q.refused = p.refused /\ (p.phase # "idle" => q.disturbed)
            BY <3>1, <3>2 DEF Build, In
        <3>4. p.phase # "idle" => /\ object'[p.source] = object[p.source] \/ object'[p.source] = NoFile
                                 /\ \/ assertions'[Externs[p.source]] = assertions[Externs[p.source]]
                                    \/ assertions'[Externs[p.source]] = NoFile
            BY <2>1, <3>1, Constants
        <3> HIDE DEF q
        <3> QED BY <3>1, <3>3, <3>4, Constants DEF BuildInv, Relies, Expects, Asserted, q
    <2> QED BY <1>1, <2>1, <2>2 DEF FilesInv
<1>3. CASE PowerLoss
    <2>1. \A s \in Sources : object'[s] \in {object[s], Torn, NoFile}
        BY <1>1, <1>3, SurvivorsType DEF PowerLoss
    <2>2. \A b \in Builders : build'[b].phase = "idle"
        BY <1>3 DEF PowerLoss, In
    <2>3. \A b \in Builders : BuildInv(b)'
        BY <2>2 DEF BuildInv, Relies, Expects, Asserted
    <2> QED BY <1>1, <2>1, <2>3 DEF FilesInv
<1> QED
    BY <1>2, <1>3

LEMMA CacheStep == CacheInv /\ [Next]_vars => CacheInv'
<1> SUFFICES ASSUME CacheInv, [Next]_vars PROVE CacheInv'
    OBVIOUS
<1>1. CacheType'
    BY CacheTypeStep DEF CacheInv
<1>2. CASE UNCHANGED vars
    <2>1. \A b \in Builders : BuildInv(b)'
        BY <1>2 DEF vars, CacheInv, BuildInv, Relies, Expects
    <2> QED BY <1>1, <1>2, <2>1 DEF vars, CacheInv, FilesInv
<1>3. CASE Clean \/ PowerLoss
    BY <1>1, <1>3, EnvironmentStep DEF CacheInv
<1>4. ASSUME NEW b \in Builders, BuildStep(b) PROVE CacheInv'
    <2>1. FilesGrow /\ FilesInv' /\ BuildInv(b)'
        <3>1. CASE \/ Start(b) \/ Interrupted(b) \/ Exit(b) \/ FindAssertions(b)
                   \/ Probe(b) \/ ReadObject(b) \/ ReadManifest(b)
                   \/ Emit(b) \/ RefusedObject(b) \/ Link(b) \/ LinkFails(b)
            BY <3>1, QuietStep DEF FilesGrow, CacheInv, FilesInv
        <3>2. CASE PublishAssertions(b) \/ PublishObject(b) \/ PublishManifest(b) \/ RefusedManifest(b)
            BY <3>2, PublishingStep
        <3> QED BY <1>4, <3>1, <3>2 DEF BuildStep
    <2>2. ASSUME NEW d \in Builders, d # b PROVE build'[d] = build[d]
        BY <1>4, <2>2 DEF BuildStep, Start, Interrupted, Exit, FindAssertions, Probe, ReadObject,
                          ReadManifest, Emit, RefusedObject, Link, LinkFails, PublishAssertions,
                          PublishObject, PublishManifest, RefusedManifest, Go, CacheInv, CacheType, TypeOK
    <2>3. \A d \in Builders : BuildInv(d)'
        BY <2>1, <2>2, OtherBuildKept
    <2> QED BY <1>1, <2>1, <2>3 DEF CacheInv
<1> QED
    BY <1>2, <1>3, <1>4, NextSplits

LEMMA CacheBegins == Init => CacheInv
<1> SUFFICES ASSUME Init PROVE CacheInv
    OBVIOUS
<1>1. \A b \in Builders : build[b].phase = "idle"
    BY DEF Init, Idle
<1>2. \A b \in Builders : BuildInv(b)
    BY <1>1 DEF BuildInv, Relies, Expects, Asserted
<1> QED
    BY <1>2, CacheTypeBegins DEF Init, CacheInv, FilesInv

\* For any builds, versions and bridges: what is linked is of the version that
\* was checked, and a build that is left alone fails over a torn assertion file
\* or not at all.
THEOREM CacheCorrect == Spec => [](LinkedObjectIsCurrent /\ EntriesHeal)
<1>1. CacheInv => LinkedObjectIsCurrent /\ EntriesHeal
    BY DEF CacheInv, BuildInv, LinkedObjectIsCurrent, EntriesHeal, In, Bridge
<1> QED
    BY <1>1, CacheBegins, CacheStep, PTL DEF Spec
=============================================================================
