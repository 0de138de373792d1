------------------------------ MODULE MCAttach ------------------------------
(* The instances of Attach that TLC checks. *)
EXTENDS Attach, TLC

\* Devices are interchangeable: no definition of Attach names one.
DeviceSymmetry == Permutations(Device)
=============================================================================
