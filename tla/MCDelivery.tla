------------------------------ MODULE MCDelivery ------------------------------
(***************************************************************************)
(* The parts of delivery, watched one at a time: as they share no state,    *)
(* each is a scene of its own.                                              *)
(***************************************************************************)
EXTENDS Delivery

CONSTANTS Scene        \* the parts an instance watches

VARIABLE scene

vars == <<design, pod, assurance, memory, backupVars, archiveVars, scene>>

\* products whose second MUST requirement comes and goes, one of them with a
\* criterion for a requirement it does not have
MCProduct ==
  {[requirements |-> {"a", "b"}, musts |-> m, criteria |-> c] :
     m \in {{"a"}, {"a", "b"}}, c \in {{"a"}, {"a", "b"}}}
  \cup {[requirements |-> {"a"}, musts |-> {"a"}, criteria |-> {"a", "b"}]}
MCCoverage == SUBSET {"a", "b"}

\* three packages, up to three dependencies between them, and scopes that overlap
MCPackage == 1..3
MCInside ==
  {<<"src", "src">>, <<"src/api", "src/api">>, <<"web", "web">>, <<"src/api", "src">>,
   <<"src/api/x", "src/api">>, <<"src/api/x", "src">>, <<"web/y", "web">>, <<"src/z", "src">>}
Planned(p, deps, scope) ==
  [deps |-> deps, scopes |-> {scope}, expected |-> {p},
   requirements |-> {IF p = 3 THEN "extra" ELSE "must"}]
Layouts == {<<"src/api", "web", "src">>, <<"src/api", "src", "web">>}
MCDraft ==
  {[p \in MCPackage |-> Planned(p, g[p], l[p])] :
     g \in {h \in [MCPackage -> SUBSET MCPackage] :
            Cardinality({<<p, q>> \in MCPackage \X MCPackage : q \in h[p]}) <= 3
              /\ \A p \in MCPackage : p \notin h[p]},
     l \in Layouts}
  \cup {[p \in {1} |-> Planned(1, {2}, "src")], [p \in {1} |-> Planned(1, {}, "src")],
        [p \in {3} |-> Planned(3, {}, "src")]}
Proof(p, paths, ok) == [paths |-> paths, artifacts |-> {p}, verified |-> ok, ids |-> {p}]
MCWork(p) ==
  {Proof(p, {"src/api/x"}, TRUE), Proof(p, {"web/y"}, TRUE),
   Proof(p, {"src/z"}, FALSE), Proof(p, {"src/z"}, TRUE)}

MCSubject == {[print |-> 1, evidence |-> 1], [print |-> 1, evidence |-> 2], [print |-> 2, evidence |-> 1]}
MCImplementers == {{"A06-BACKEND"}, {"A06-BACKEND", "A10-QA"}}

\* a lesson that may be promoted, one that may not, and a reviewer for each
MCLesson ==
  {[proposer |-> "dev", source |-> 1, trust |-> t, needs |-> {"log"}, mission |-> "m"] :
     t \in {"CANONICAL", "UNTRUSTED_EXTERNAL"}}
MCVerdict ==
  {[reviewer |-> "ann", approved |-> ok, verified |-> v] : ok \in BOOLEAN, v \in {{}, {"log"}}}
  \cup {[reviewer |-> "dev", approved |-> TRUE, verified |-> {"log"}]}

Init ==
  /\ scene \in Scene
  /\ IF scene = "design" THEN DesignInit
     ELSE /\ product = NoDesign /\ architecture = NoDesign /\ ux = NoDesign
          /\ revision = 0 /\ bundle = [state |-> "failed"]
  /\ IF scene = "assure" THEN AssuranceInit
     ELSE AssuranceInit /\ subject = [print |-> 1, evidence |-> 1]
  /\ PodInit /\ MemoryInit /\ BackupInit /\ ArchiveInit

Next ==
  /\ UNCHANGED scene
  /\ \/ scene = "design" /\ DesignNext
        /\ UNCHANGED <<pod, assurance, memory, backupVars, archiveVars>>
     \/ scene = "build" /\ PodNext
        /\ UNCHANGED <<design, assurance, memory, backupVars, archiveVars>>
     \/ scene = "assure" /\ AssuranceNext
        /\ UNCHANGED <<design, pod, memory, backupVars, archiveVars>>
     \/ scene = "memory" /\ MemoryNext
        /\ UNCHANGED <<design, pod, assurance, backupVars, archiveVars>>
     \/ scene = "backup" /\ BackupNext
        /\ UNCHANGED <<design, pod, assurance, memory, archiveVars>>
     \/ scene = "archive" /\ ArchiveNext
        /\ UNCHANGED <<design, pod, assurance, memory, backupVars>>

Spec == Init /\ [][Next]_vars
=============================================================================
