----------------------------- MODULE MCDataList -----------------------------
(***************************************************************************)
(* A small instance of DataList: chunks of no, one and two bytes.          *)
(***************************************************************************)
EXTENDS DataList

SmallChunks == {<<>>, <<1>>, <<1, 2>>}
=============================================================================
