---------------------------- MODULE MCCardStock -----------------------------
(* Stocks for model-checking CardStock. *)
EXTENDS CardStock

TwoLines   == <<"a", "b">>
OneUpload  == <<<<"c", "d">>>>
=============================================================================
