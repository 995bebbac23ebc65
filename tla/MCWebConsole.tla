---------------------------- MODULE MCWebConsole ----------------------------
EXTENDS WebConsole

CONSTANTS alice, bob, carol, r1, r2

\* Nothing may happen but what a scene allows.
None == [type |-> 0, fail |-> 0, auth |-> 0, tab |-> 0, move |-> 0, load |-> 0,
         ask |-> 0, refuse |-> 0, drift |-> 0, logs |-> 0, menu |-> 0,
         panel |-> FALSE, self |-> NoRow, pages |-> {}]

Scene(p, r, rows, bounds) ==
    [configured |-> TRUE, cookie |-> alice, admins |-> {alice, bob}, made |-> {alice, bob},
     path |-> p, at |-> r, row |-> rows, left |-> bounds]

Both(s, t) == [r \in Rows |-> IF r = r1 THEN s ELSE t]

MCScenes ==
    { [Scene("home", NoRow, Both("gone", "gone"), [None EXCEPT !.type = 3, !.fail = 1])
         EXCEPT !.configured = FALSE, !.cookie = Nobody],
      \* the session
      [Scene("home", NoRow, Both("running", "gone"),
             [None EXCEPT !.auth = 3, !.fail = 1, !.move = 1, !.pages = {"home", "overview"}])
         EXCEPT !.cookie = Nobody],
      Scene("overview", NoRow, Both("running", "gone"),
             [None EXCEPT !.auth = 2, !.tab = 1, !.move = 1, !.pages = {"overview"}]),
      \* the invitation
      [Scene("invite", NoRow, Both("gone", "gone"),
             [None EXCEPT !.auth = 3, !.fail = 1, !.move = 1, !.load = 1,
                          !.pages = {"login", "invite"}])
         EXCEPT !.cookie = Nobody],
      \* the list
      Scene("workspaces", NoRow, Both("running", "stopped"), [None EXCEPT !.ask = 3]),
      Scene("workspaces", NoRow, Both("running", "gone"),
             [None EXCEPT !.ask = 2, !.refuse = 1, !.drift = 1]),
      Scene("workspaces", NoRow, Both("running", "gone"),
             [None EXCEPT !.ask = 1, !.fail = 1, !.menu = 1, !.move = 1, !.pages = {"detail"}]),
      \* one workspace
      Scene("open", r1, Both("stopped", "gone"),
             [None EXCEPT !.ask = 1, !.move = 1, !.drift = 1, !.refuse = 1,
                          !.pages = {"home", "detail"}]),
      Scene("settings", r1, Both("running", "gone"),
             [None EXCEPT !.ask = 2, !.refuse = 1, !.move = 1,
                          !.pages = {"detail", "workspaces"}]),
      Scene("settings", r1, Both("running", "gone"),
             [None EXCEPT !.ask = 1, !.fail = 1, !.drift = 1, !.panel = TRUE]),
      Scene("new", NoRow, Both("gone", "running"),
             [None EXCEPT !.ask = 1, !.move = 1, !.menu = 1, !.pages = {"workspaces", "detail"}]),
      \* the account
      Scene("account", NoRow, Both("running", "gone"),
             [None EXCEPT !.ask = 2, !.move = 2, !.pages = {"security", "devices", "account"}]),
      \* administration
      Scene("fleet", NoRow, Both("running", "gone"), [None EXCEPT !.ask = 2]),
      Scene("fleet", NoRow, Both("running", "stopped"), [None EXCEPT !.ask = 1]),
      Scene("fleet", NoRow, Both("running", "gone"),
             [None EXCEPT !.ask = 1, !.move = 1, !.pages = {"workspaces"}]),
      Scene("fleet", NoRow, Both("running", "gone"),
             [None EXCEPT !.logs = 2, !.fail = 1, !.move = 1, !.pages = {"users"}]),
      Scene("users", NoRow, Both("running", "gone"),
             [None EXCEPT !.ask = 1, !.move = 1, !.self = r1, !.pages = {"overview"}]),
      Scene("users", NoRow, Both("running", "gone"), [None EXCEPT !.ask = 2, !.self = r1]),
      Scene("versions", NoRow, Both("running", "running"),
             [None EXCEPT !.ask = 2, !.fail = 1, !.pages = {}]) }
=============================================================================
