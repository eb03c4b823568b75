--------------------------- MODULE MCCommandLine ----------------------------
(* Arguments for TLC: of every option, enough values for each check of     *)
(* parse_cli to succeed and to fail.                                       *)
EXTENDS CommandLine

MCArgument ==
    {<<"word", w>> : w \in {"query", "sources", "a", "-x"}} \cup
    {<<o, None>> : o \in {"--", "--help", "--unknown", "--quiet"}} \cup
    {<<"--trace-label", l>> : l \in {<<"a", "A">>, <<"a", "B">>, <<"query", "Q">>}} \cup
    {<<"--kind", k>> : k \in {"message", "cpu-zone", "ghost-zone", "all"}} \cup
    {<<"--point", p>> : p \in {"latest", "active"}} \cup
    {<<"--from", 1>>, <<"--from", 2>>, <<"--to", 1>>, <<"--at", 1>>} \cup
    {<<"--zone", z>> : z \in {"root", "parent"}} \cup
    {<<"--filter", f>> :
        f \in {<<None, "text">>, <<None, "name">>, <<"cpu-zone", "text">>, <<"message", "name">>}} \cup
    {<<"--thread", TRUE>>, <<"--thread", FALSE>>}

=============================================================================
