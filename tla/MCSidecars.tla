----------------------------- MODULE MCSidecars -----------------------------
(***************************************************************************)
(* Two processes in two projects, on hosts with and without OVN; an older  *)
(* sidecar and a global project from before OVN are met by one `up` only.  *)
(***************************************************************************)
EXTENDS Sidecars

CONSTANTS c1, c2, A, B

MCTargets == (A :> {}) @@ (B :> {A})

H(o, project, image, up, mine) ==
    [ovn |-> o, gproj |-> project, image |-> image, up |-> up, own |-> mine]
J(what, p) == [what |-> what, project |-> p, daemon |-> None]
D(d) == [what |-> "daemon", project |-> None, daemon |-> d]
K(h, a, b) == [host |-> h, jobs |-> (c1 :> a) @@ (c2 :> b)]

Bare(o) == H(o, "none", "none", {}, {"dns"})
Used(o, image, up) == H(o, IF o THEN "ovn" ELSE "plain", image, up, {})
Legacy == H(TRUE, "plain", "old", {}, {})

MCCases ==
    {K(h, a, b) : h \in {Bare(o) : o \in BOOLEAN} \union {Used(o, "new", up) : o \in BOOLEAN, up \in SUBSET {A, B}},
                  a \in {J("up", A), J("down", A)},
                  b \in {J("up", B), J("down", B), J("up", A), J("down", A), D("dns")}}
    \union {K(Used(o, "old", {B}), J("up", A), b) : o \in BOOLEAN, b \in {J("down", B), J("none", B)}}
    \union {K(Legacy, j, J("none", B)) : j \in {J("up", A), D("healthd")}}

(* Two processes that both find the global project from before OVN. *)
MCLegacy == {K(Legacy, J("up", A), J("up", B))}
=============================================================================
