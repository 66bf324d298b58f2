----------------------------- MODULE MCSstConfig -----------------------------
(***************************************************************************)
(* CPUs with words of two cores and of two buckets, and levels of two      *)
(* bits: with a gap in the levels, with the largest level, with buckets    *)
(* that are empty, without backend or SST-PP, and with a current level     *)
(* that is not among its levels or not supported.                          *)
(***************************************************************************)
EXTENDS SstConfig

Info(cores, hiCores, ratios) ==
    [pkgTdp |-> 3, cores |-> cores, p1 |-> 2, p0 |-> 4, tProchot |-> 5,
     pbfSupport |-> hiCores # {}, hiCores |-> hiCores, p1Hi |-> 3, p1Lo |-> 1,
     limitRatios |-> ratios]

Low == Info({0, 1, 2, 3}, {1, 2}, <<4, 4, 3, 2>>)
Middle == Info({1, 2, 3}, {3}, <<4, 0, 3, 0>>)
High == Info({0, 3}, {}, <<5, 4, 0, 0>>)

Spr == [model |-> "sapphireRapids", enabled |-> TRUE, maxLevel |-> 3, initial |-> {0, 3},
        trlCores |-> <<1, 2, 3, 4>>, levels |-> 0 :> Low @@ 2 :> Middle @@ 3 :> High]
Icx == [Spr EXCEPT !.model = "iceLake", !.maxLevel = 1, !.initial = {0},
                   !.trlCores = <<2, 4, 0, 0>>, !.levels = 0 :> Middle]

MCCpus ==
    {Spr, Icx,
     [Icx EXCEPT !.enabled = FALSE],
     [Spr EXCEPT !.model = "other"],
     [Spr EXCEPT !.maxLevel = 2, !.initial = {3}],
     [Icx EXCEPT !.initial = {1}]}
=============================================================================
