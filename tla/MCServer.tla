------------------------------- MODULE MCServer -------------------------------
(* Server over configurations of up to two MCP servers.                    *)
EXTENDS Server

Entry(s, kind, command, url, token) ==
  [name |-> s, transport |-> kind, command |-> command, url |-> url, token |-> token]

Stdio(s) == Entry(s, "stdio", TRUE, FALSE, "none")
Http(s, token) == Entry(s, "http", FALSE, TRUE, token)

MCFiles ==
  {<<>>, <<Stdio("p"), Http("q", "set")>>, <<Http("q", "unset")>>,
   <<Stdio("p"), Stdio("p")>>, <<Entry("p", "stdio", FALSE, TRUE, "none")>>,
   <<Http("p", "none"), Entry("q", "stdio", TRUE, FALSE, "set")>>,
   <<Entry("q", "http", TRUE, FALSE, "none")>>}

\* One tool that both offer, one of each, one that a built-in tool shadows.
MCOffers == [s \in {"p", "q"} |-> {"both", s, "file_read"}]
MCHidden == {"file_read"}
=============================================================================
