------------------------------- MODULE Delivery -------------------------------
(***************************************************************************)
(* Delivery: the pods that design, build and assure a subject, and the      *)
(* stores that keep what they leave behind.  Each is called by itself and   *)
(* shares no state with the others, so a step of one may come at any moment *)
(* of another, or with it.                                                  *)
(***************************************************************************)
EXTENDS DesignPod, EngineeringPod, AssuranceReview, MemoryStore, BackupRestore, AuditArchive

DeliverySpec ==
  DesignSpec /\ PodSpec /\ AssuranceSpec /\ MemorySpec /\ BackupSpec /\ ArchiveSpec

\* The state of every part is well typed.
DeliveryTypeOK ==
  /\ DesignTypeOK /\ PodTypeOK /\ AssuranceTypeOK
  /\ MemoryTypeOK /\ BackupTypeOK /\ ArchiveTypeOK
=============================================================================
