---------------------------- MODULE MCApplyHelpers ---------------------------
(***************************************************************************)
(* Two managers, one that reconciles the second incarnation of the CR "csi" *)
(* and one that reconciles another CR, on an object that anyone else may    *)
(* own, create, edit and delete.                                            *)
(***************************************************************************)
EXTENDS ApplyHelpers

CONSTANTS m1, m2, csi1, csi2, other, plain, edited

MCUids == {csi1, csi2, other}
MCNameOf == [u \in MCUids |-> IF u = other THEN "other" ELSE "csi"]
MCMe == [c \in Callers |-> IF c = m1 THEN csi2 ELSE other]
MCContents == {plain, edited}
MCWant == [c \in Callers |-> plain]
=============================================================================
