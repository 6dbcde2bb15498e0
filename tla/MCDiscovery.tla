----------------------------- MODULE MCDiscovery -----------------------------
(* Model checking of Discovery. *)
EXTENDS Discovery

MCRequired == {"prodname", "cfgcpf", "scfgtu"}

Standard ==
    << Open("netft"),
       Open("prodname"), Text("Axia"), CloseTag("prodname"),
       Open("cfgcpf"), Text("1"), CloseTag("cfgcpf"),
       Open("scfgtu"), Text("N-m"), CloseTag("scfgtu"),
       CloseTag("netft") >>

MCStandards == {Standard, Append(Standard, Skip)}

Names == {"cfgcpf", "scfgtu", "netft"}

MCTokens ==
    {Open(n) : n \in Names} \cup {CloseTag(n) : n \in Names}
        \cup {Empty("scfgtu"), Empty("other"), Skip, Bad}
        \cup {Text(t) : t \in {Blank, "1", "tiny", "Nm", "unknown"}}

MCTokensAgain ==
    {Open("cfgcpf"), CloseTag("cfgcpf"), Text("1"), Text(Blank)}

MCTimeouts == -1 .. 12
=============================================================================
