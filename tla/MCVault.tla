------------------------------ MODULE MCVault ------------------------------
(* Instances of Vault for TLC.                                             *)
EXTENDS Vault

Home == <<"h">>
InD == <<"d", "n">>
InE == <<"e", "n">>
MCPaths == {Home, InD, InE}
MCDirs == {<<"d">>}

\* What a note says is the links in it.
MCLinksOf == [x |-> {<<"n">>}, y |-> {<<"d", "n">>, <<"h">>}]

None == [paths |-> {Home, InD}, files |-> {Home}, reindex |-> FALSE, incremental |-> TRUE, alive |-> TRUE,
         inotify |-> TRUE, failures |-> 0, external |-> 0, kinds |-> {}, expiries |-> 0,
         commands |-> 0, calls |-> {}, edits |-> 0, saves |-> 0, loads |-> 0,
         rebuilds |-> 0, toggles |-> 0]

MCBudgets == {
    \* the first rebuild, with changes before and after the watcher starts
    [None EXCEPT !.reindex = TRUE, !.external = 2, !.kinds = {"write", "remove"}, !.loads = 1],
    \* renames and moves, by others, while rebuilds are asked for
    [None EXCEPT !.files = {Home, InD}, !.external = 2, !.kinds = {"rename", "out", "in"},
                 !.rebuilds = 1],
    [None EXCEPT !.files = {Home, InD}, !.external = 2, !.kinds = {"rename", "out"},
                 !.inotify = FALSE, !.rebuilds = 1],
    \* commands, their reports and their ledger entries
    [None EXCEPT !.commands = 2, !.calls = {"write", "delete", "trash", "rename"},
                 !.expiries = 1],
    [None EXCEPT !.commands = 1, !.calls = {"write", "trash", "rename"}, !.external = 1,
                 !.kinds = {"write", "remove"}, !.failures = 1, !.loads = 1],
    [None EXCEPT !.commands = 1, !.calls = {"write", "delete", "trash", "rename"},
                 !.external = 1, !.kinds = {"write"}, !.inotify = FALSE],
    \* an index that is rebuilt after every change, switched on the way
    [None EXCEPT !.incremental = FALSE, !.external = 2, !.kinds = {"write", "remove"},
                 !.toggles = 1, !.failures = 1],
    [None EXCEPT !.incremental = FALSE, !.commands = 1, !.calls = {"write", "delete", "rename"},
                 !.edits = 1, !.saves = 1],
    \* the editor, typing while it saves, with others changing the note
    [None EXCEPT !.edits = 2, !.saves = 2, !.external = 1, !.kinds = {"write", "remove"},
                 !.failures = 1],
    [None EXCEPT !.edits = 1, !.saves = 2, !.commands = 1, !.calls = {"write"}, !.loads = 1],
    \* no writer thread
    [None EXCEPT !.alive = FALSE, !.edits = 2, !.saves = 2, !.commands = 1,
                 !.calls = {"write", "delete", "rename"}],
    [None EXCEPT !.alive = FALSE, !.reindex = TRUE, !.edits = 1, !.saves = 1, !.commands = 1,
                 !.calls = {"delete"}],
    \* links between notes, two of them with the same name
    [None EXCEPT !.paths = MCPaths, !.files = MCPaths, !.external = 1,
                 !.kinds = {"write", "remove"}, !.failures = 1, !.rebuilds = 1],
    [None EXCEPT !.paths = MCPaths, !.files = MCPaths, !.commands = 2,
                 !.calls = {"write", "delete", "rename"}],
    [None EXCEPT !.paths = {InD, InE}, !.files = MCPaths, !.commands = 3,
                 !.calls = {"delete", "rename"}]
  }
=============================================================================
