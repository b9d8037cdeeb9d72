------------------------------ MODULE MCImages ------------------------------
(* Two processes, in one project or two, for one platform or two. *)
EXTENDS Images, TLC

CONSTANTS p1, p2, X, Y, amd64, armv6, armv7

MCFold == (amd64 :> amd64) @@ (armv6 :> armv6) @@ (armv7 :> armv6)
J(kind, arch, project) == [kind |-> kind, arch |-> arch, project |-> project]
Pairs == {<<"ensure", "ensure">>, <<"ensure", "always">>, <<"always", "always">>,
          <<"build", "force">>, <<"ensure", "build">>, <<"never", "force">>,
          <<"direct", "ensure">>, <<"nocache", "always">>, <<"down", "ensure">>}
Targets == {<<amd64, X>>, <<amd64, Y>>, <<armv7, X>>, <<armv6, Y>>}
MCJobs == {(p1 :> J(k[1], amd64, X)) @@ (p2 :> J(k[2], t[1], t[2])) : k \in Pairs, t \in Targets}

=============================================================================
