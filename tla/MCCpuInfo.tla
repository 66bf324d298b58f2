------------------------------ MODULE MCCpuInfo ------------------------------
(***************************************************************************)
(* CpuInfo for TLC: an SSpec, a QDF string and a field with too little in  *)
(* it, made of single characters.                                          *)
(***************************************************************************)
EXTENDS CpuInfo

MCBytes == {"S", "a", "b", "c", "Q", "d", "f", "0", "1", "np"}

MCSSpec == <<"S", "a", "b", "c", "np", "np">>
MCQdf == <<"0", "0", "Q", "d", "f", "1">>
MCShort == <<"S", "a", "np", "np", "np", "np">>

MCContents == {MCSSpec, MCQdf, MCShort}

\* What is to be read from them.
MCSpecs == {<<"S", "a", "b", "c">>, <<"Q", "d", "f", "1">>, <<"0", "Q", "d", "f", "1">>}
=============================================================================
