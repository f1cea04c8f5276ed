-------------------------- MODULE MCGatewayIngress --------------------------
(* Small instances of GatewayIngress for TLC. *)
EXTENDS GatewayIngress, TLC

CONSTANTS h1, h2, m1, m2, m3, m4, a, b, p, q

\* Two gateway messages on two routes of one platform, the second route named
\* by a longer text; a CLI turn; a gateway message without a delivery target.
MCTargetOf == (m1 :> a) @@ (m2 :> b) @@ (m3 :> Cli) @@ (m4 :> NoRoute)
OnePlatform == (a :> p) @@ (b :> p) @@ (p :> p)
TwoPlatforms == (a :> p) @@ (b :> q) @@ (p :> p) @@ (q :> q)
MCLengthOf == (m1 :> 3) @@ (m2 :> 4) @@ (m3 :> 0) @@ (m4 :> 0)

HostSymmetry == Permutations(Hosts)
=============================================================================
