------------------------------ MODULE MCNetem ------------------------------
(* Small instances of Netem for TLC. *)
EXTENDS Netem, TLC

CONSTANTS e1, e2, e3, i1, i2

Config(d, j, l) == [NoConfig EXCEPT !["delay"] = d, !["jitter"] = j,
                                    !["loss"] = l]

\* Faults of which none covers another: two impair, with rates of which one
\* is tighter, and one is capped by its limit alone.
ThreeConfigs ==
    {[Config(1, 0, 2) EXCEPT !["rate"] = 2],
     [Config(2, 1, 0) EXCEPT !["rate"] = 1],
     [NoConfig EXCEPT !["limit"] = 1]}

OneConfig == {Config(1, 0, 1)}
ZeroOrOne == {0, 1}
JustOne == {1}

ExpSymmetry == Permutations(ExpIDs)
=============================================================================
