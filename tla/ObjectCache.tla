---------------------------- MODULE ObjectCache ----------------------------
(***************************************************************************)
(* The artifacts of cargo-snacc: the object, the manifest and the bridge   *)
(* assertions that builds, run as separate processes over one target       *)
(* directory, publish and reuse (cache.rs, bridge.rs, commands/build.rs).  *)
(*                                                                         *)
(* Every file is written to a temporary sibling and renamed, without being *)
(* synchronised to disk.  A build may be killed, a rename may be refused   *)
(* while another build reads the target (as Windows does), "cargo snacc    *)
(* clean" removes files one at a time under running builds, and a power    *)
(* loss may keep, tear or lose any file.  Emission is not deterministic:   *)
(* functions are lowered in the iteration order of a hash map              *)
(* (llvm/lower/mod.rs), so each emission chooses a variant of the object.  *)
(*                                                                         *)
(* The digest in an object's path covers everything the object depends on  *)
(* and stands here for the source itself: collisions are left out.         *)
(***************************************************************************)
EXTENDS FiniteSets

CONSTANTS
    Builders,  \* processes
    Sources,   \* versions of the program
    Externs,   \* [Sources -> Bridges]: the bridge assertions of a version
    Bridges,
    Variants,  \* objects an emission may produce for one version
    NoFile,
    Torn       \* a file whose contents a power loss destroyed

ASSUME CacheAssumption ==
    /\ Externs \in [Sources -> Bridges]
    /\ Variants # {}
    /\ {Torn, NoFile} \cap [of : Sources, variant : Variants] = {}
    /\ Torn \notin {NoFile, "whole"} /\ NoFile # "whole"

VARIABLES
    object,      \* the object file at an identity
    manifest,    \* the manifest at an identity: the hash of an object
    assertions,  \* the assertion file of a bridge
    build        \* what each process is doing

vars == <<object, manifest, assertions, build>>

Whole == "whole"      \* an assertion file as rendered
Partial == "partial"  \* one that its writer did not finish

\* A digest of everything the object depends on.
Identity(s) == s

Objects == [of : Sources, variant : Variants]

Phases == {"idle", "assert", "render", "probe", "readObject", "readManifest", "emit",
           "publish", "describe", "link", "linked", "failed"}

Idle == [phase |-> "idle", source |-> NoFile, bytes |-> NoFile, bridge |-> NoFile,
         disturbed |-> FALSE, refused |-> FALSE]

TypeOK ==
    /\ object \in [Sources -> Objects \cup {Torn, NoFile}]
    /\ manifest \in [Sources -> Objects \cup {Torn, NoFile}]
    /\ assertions \in [Bridges -> {Whole, Torn, NoFile}]
    /\ build \in [Builders -> [phase : Phases, source : Sources \cup {NoFile},
                               bytes : Objects \cup {Torn, NoFile},
                               bridge : {Whole, Torn, NoFile},
                               disturbed : BOOLEAN, refused : BOOLEAN]]

Init ==
    /\ object = [s \in Sources |-> NoFile]
    /\ manifest = [s \in Sources |-> NoFile]
    /\ assertions = [e \in Bridges |-> NoFile]
    /\ build = [b \in Builders |-> Idle]

In(b, phase) == build[b].phase = phase
Path(b)      == Identity(build[b].source)
Bridge(b)    == Externs[build[b].source]
Go(b, phase) == build' = [build EXCEPT ![b].phase = phase]

----------------------------------------------------------------------------
(* One build.                                                               *)

\* build_command: the program is read and checked; one that is rejected ends here.
Start(b) ==
    /\ In(b, "idle")
    /\ \E s \in Sources : build' = [build EXCEPT ![b].phase = "assert", ![b].source = s]
    /\ UNCHANGED <<object, manifest, assertions>>

\* A file operation that a concurrent clean interferes with reports an error.
Interrupted(b) ==
    /\ build[b].disturbed
    /\ build[b].phase \in {"render", "readObject", "readManifest", "publish", "describe"}
    /\ Go(b, "failed")
    /\ UNCHANGED <<object, manifest, assertions>>

\* The target of a rename is open in another process.
Held(b) ==
    \E d \in Builders \ {b} : /\ build[d].phase \in {"readObject", "readManifest", "link"}
                              /\ build[d].source = build[b].source

\* write_bridge_assertions: a file that is there is taken as it is.
FindAssertions(b) ==
    /\ In(b, "assert")
    /\ Go(b, IF assertions[Bridge(b)] = NoFile THEN "render" ELSE "probe")
    /\ UNCHANGED <<object, manifest, assertions>>

\* A refused rename finds the text that was to be written there already.
PublishAssertions(b) ==
    /\ In(b, "render")
    /\ assertions' = [assertions EXCEPT ![Bridge(b)] = Whole]
    /\ Go(b, "probe")
    /\ UNCHANGED <<object, manifest>>

\* emit_cached: cache_matches, one file operation at a time.
Probe(b) ==
    /\ In(b, "probe")
    /\ Go(b, IF object[Path(b)] = NoFile \/ manifest[Path(b)] = NoFile THEN "emit" ELSE "readObject")
    /\ UNCHANGED <<object, manifest, assertions>>

ReadObject(b) ==
    /\ In(b, "readObject")
    /\ object[Path(b)] # NoFile
    /\ build' = [build EXCEPT ![b].phase = "readManifest", ![b].bytes = object[Path(b)]]
    /\ UNCHANGED <<object, manifest, assertions>>

\* Mutation: the manifest is believed without hashing the object.
MatchesIdentity(bytes, m) == m \notin {Torn, NoFile}

Matches(bytes, m) == m \notin {Torn, NoFile} /\ m = bytes

ReadManifest(b) ==
    /\ In(b, "readManifest")
    /\ manifest[Path(b)] # NoFile
    /\ LET reuse == Matches(build[b].bytes, manifest[Path(b)])
       IN  build' = [build EXCEPT ![b].phase = IF reuse THEN "link" ELSE "emit",
                                  ![b].bytes = NoFile]
    /\ UNCHANGED <<object, manifest, assertions>>

\* Emission succeeds: the program was checked before.
Emit(b) ==
    /\ In(b, "emit")
    /\ \E v \in Variants :
         build' = [build EXCEPT ![b].phase = "publish",
                                ![b].bytes = [of |-> build[b].source, variant |-> v]]
    /\ UNCHANGED <<object, manifest, assertions>>

\* Mutation: an object that is there is kept.
PublishUnlessPresent(b) ==
    /\ In(b, "publish")
    /\ object' = [object EXCEPT ![Path(b)] = IF @ = NoFile THEN build[b].bytes ELSE @]
    /\ Go(b, "describe")
    /\ UNCHANGED <<manifest, assertions>>

PublishObject(b) ==
    /\ In(b, "publish")
    /\ object' = [object EXCEPT ![Path(b)] = build[b].bytes]
    /\ Go(b, "describe")
    /\ UNCHANGED <<manifest, assertions>>

PublishManifest(b) ==
    /\ In(b, "describe")
    /\ manifest' = [manifest EXCEPT ![Path(b)] = build[b].bytes]
    /\ build' = [build EXCEPT ![b].phase = "link", ![b].bytes = NoFile]
    /\ UNCHANGED <<object, assertions>>

\* persist fails and the target is a file: the build goes on with what it finds.
RefusedObject(b) ==
    /\ In(b, "publish") /\ Held(b)
    /\ object[Path(b)] # NoFile
    /\ build' = [build EXCEPT ![b].phase = "describe", ![b].refused = TRUE]
    /\ UNCHANGED <<object, manifest, assertions>>

RefusedManifest(b) ==
    /\ In(b, "describe") /\ Held(b)
    /\ manifest[Path(b)] # NoFile
    /\ build' = [build EXCEPT ![b].phase = "link", ![b].bytes = NoFile]
    /\ UNCHANGED <<object, manifest, assertions>>

\* cargo rustc compiles the assertions and links the object.
Link(b) ==
    /\ In(b, "link")
    /\ object[Path(b)] # NoFile /\ assertions[Bridge(b)] # NoFile
    /\ build' = [build EXCEPT ![b].phase = "linked", ![b].bytes = object[Path(b)],
                              ![b].bridge = assertions[Bridge(b)]]
    /\ UNCHANGED <<object, manifest, assertions>>

LinkFails(b) ==
    /\ In(b, "link")
    /\ object[Path(b)] \in {NoFile, Torn} \/ assertions[Bridge(b)] # Whole
    /\ Go(b, "failed")
    /\ UNCHANGED <<object, manifest, assertions>>

\* The process ends: after its build, or killed in the middle of it.
Exit(b) ==
    /\ ~In(b, "idle")
    /\ build' = [build EXCEPT ![b] = Idle]
    /\ UNCHANGED <<object, manifest, assertions>>

----------------------------------------------------------------------------
(* What happens to the files.                                               *)

Disturb == build' = [b \in Builders |-> [build[b] EXCEPT !.disturbed = ~In(b, "idle")]]

\* clean_command, at one file.
Clean ==
    /\ \/ /\ \E s \in Sources : object' = [object EXCEPT ![s] = NoFile]
          /\ UNCHANGED <<manifest, assertions>>
       \/ /\ \E s \in Sources : manifest' = [manifest EXCEPT ![s] = NoFile]
          /\ UNCHANGED <<object, assertions>>
       \/ /\ \E e \in Bridges : assertions' = [assertions EXCEPT ![e] = NoFile]
          /\ UNCHANGED <<object, manifest>>
    /\ Disturb

\* What may be left of a set of files.
Survivors(file) ==
    {f \in [DOMAIN file -> {file[s] : s \in DOMAIN file} \cup {Torn, NoFile}] :
        \A s \in DOMAIN file : f[s] \in {file[s], NoFile} \cup (IF file[s] = NoFile THEN {} ELSE {Torn})}

\* A power loss ends every build too: it comes when each has been killed.
PowerLoss ==
    /\ \A b \in Builders : In(b, "idle")
    /\ object' \in Survivors(object)
    /\ manifest' \in Survivors(manifest)
    /\ assertions' \in Survivors(assertions)
    /\ UNCHANGED build

Next ==
    \/ \E b \in Builders :
        \/ Start(b) \/ Interrupted(b) \/ Exit(b)
        \/ FindAssertions(b) \/ PublishAssertions(b)
        \/ Probe(b) \/ ReadObject(b) \/ ReadManifest(b)
        \/ Emit(b) \/ PublishObject(b) \/ PublishManifest(b)
        \/ RefusedObject(b) \/ RefusedManifest(b)
        \/ Link(b) \/ LinkFails(b)
    \/ Clean
    \/ PowerLoss

Spec == Init /\ [][Next]_vars

----------------------------------------------------------------------------
\* What is linked is an object emitted for the version that was checked,
\* whatever other builds, kills, cleans and power losses did to the entry.  The
\* exception is the code's own: a refused rename takes the object that is there,
\* which is then at least an object of that version or one a power loss tore.
LinkedObjectIsCurrent ==
    \A b \in Builders : In(b, "linked") =>
        \/ build[b].bytes \in Objects /\ build[b].bytes.of = build[b].source
        \/ build[b].refused /\ build[b].bytes = Torn

\* A build that nobody cleans under, and whose rename is not refused, only
\* fails over an assertion file that a power loss tore, which is never rendered
\* again: a torn object or manifest is replaced by the next build, and no step
\* of another build, and no kill between two of them, leaves a file behind that
\* makes a later one fail.
EntriesHeal ==
    \A b \in Builders : In(b, "failed") /\ ~build[b].disturbed /\ ~build[b].refused =>
        assertions[Bridge(b)] = Torn
=============================================================================
