--------------------------- MODULE MCToolExecution ---------------------------
(* Instances of ToolExecution for TLC. *)
EXTENDS ToolExecution, TLC

CONSTANTS c1, c2, c3

row(d, l, n, risk, rev, block, remote) ==
  [default |-> d, level |-> l, needs |-> n, risky |-> risk, reversible |-> rev, blocked |-> block,
   named |-> remote]

\* One action per kind of rule, with the rows of policy.py.
MCActions == {"app.open", "browser.submit", "file.delete", "trade.execute"}
MCPolicy ==
  "app.open"          :> row("AUTO", OPEN, OPEN, FALSE, TRUE, FALSE, FALSE)
  @@ "browser.submit" :> row("ASK_ONCE", EXTERNAL, EXTERNAL, FALSE, FALSE, FALSE, TRUE)
  @@ "file.delete"    :> row("ASK_ALWAYS", MODIFY, MODIFY, TRUE, FALSE, FALSE, FALSE)
  @@ "trade.execute"  :> row("BLOCK", 5, EXTERNAL, TRUE, FALSE, TRUE, FALSE)

ask(a, remote, waits) ==
  [action |-> a, glob |-> "docs/*", matches |-> {"docs/*", "*"}, remote |-> remote,
   barred |-> FALSE, waits |-> waits]

Three == {c1, c2, c3}

\* An action that may be granted: asked for by an automation that does not wait for the
\* answer and names nothing, and, perhaps under the grant that answer gave, at the desk and
\* from the owner's phone; its name is on the list for the phone.
Granted == c1 :> [ask("browser.submit", FALSE, FALSE) EXCEPT !.glob = "*", !.matches = {"*"}]
           @@ c2 :> ask("browser.submit", FALSE, TRUE)
           @@ c3 :> ask("browser.submit", TRUE, FALSE)
\* The same for an action that is asked about every time.
Always == c1 :> ask("file.delete", FALSE, FALSE)
          @@ c2 :> ask("file.delete", FALSE, TRUE)
          @@ c3 :> ask("trade.execute", FALSE, TRUE)
\* And for one a cautious owner is asked about and a bold one is not.
Cautious == c1 :> ask("app.open", FALSE, FALSE)
            @@ c2 :> ask("app.open", TRUE, TRUE)
            @@ c3 :> ask("trade.execute", FALSE, TRUE)
Standing == {Granted, Always, Cautious}

\* An action only a cautious owner is asked about, one that an automation which does not
\* wait must ask for every time, and one that a privacy zone or the agent's envelope bars.
Guarded == { c1 :> ask("app.open", FALSE, TRUE)
             @@ c2 :> ask("file.delete", FALSE, FALSE)
             @@ c3 :> [ask("app.open", FALSE, TRUE) EXCEPT !.barred = TRUE] }
===============================================================================
