---------------------- MODULE MCMultiSequenceDispatcher ----------------------
(* Queries of one chain and queries of two; those of one chain also without *)
(* a callback.                                                              *)
EXTENDS MultiSequenceDispatcher

MCChainSets == {<<1>>, <<2, 1>>}

MCKinds == {<<<<1>>, TRUE>>, <<<<1>>, FALSE>>, <<<<2, 1>>, TRUE>>}
=============================================================================
