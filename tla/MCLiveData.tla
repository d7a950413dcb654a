----------------------------- MODULE MCLiveData ------------------------------
(* A small instance of LiveData for TLC. *)
EXTENDS LiveDataInv, TLC

CONSTANT t1

OneTicker  == <<t1>>
SameTwice == <<t1, t1>>
=============================================================================
