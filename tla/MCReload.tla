------------------------------ MODULE MCReload ------------------------------
(***************************************************************************)
(* Small instances of Reload: two lists, at most four YAML files, every    *)
(* kind of trouble once, twice or as often as you like.                    *)
(***************************************************************************)
EXTENDS Reload, TLC

CONSTANTS u1, u2, id1, ta, tb

F1 == [id |-> id1, url |-> u1]      \* an entry with a numeric id
F2 == [id |-> NoId, url |-> u2]     \* an entry named by its URL
Moved(u) == [F1 EXCEPT !.url = u]   \* the first entry, from another URL

Cfg(fs, i, t, b) == [filters |-> fs, interval |-> i, transport |-> t, builds |-> b]

\* What an operator may put in place: one list and no scheduled refresh; the
\* same list and a second one, refreshed; a file that needs a restart; a file
\* whose zones cannot be built.
EditedConfigs ==
    {Cfg(<<F1>>, 0, ta, TRUE), Cfg(<<F1, F2>>, 3, ta, TRUE),
     Cfg(<<F2>>, 0, tb, TRUE), Cfg(<<F2>>, 3, ta, FALSE)}

EditsBudget ==
    [edit |-> Unlimited, disk |-> 0, crash |-> 0, lose |-> Unlimited,
     hup |-> Unlimited, term |-> 1, listener |-> 1]

\* One configuration with two lists.
TwoLists == {Cfg(<<F1, F2>>, 3, ta, TRUE)}

\* The same, and one that has given the id to another URL, with a disk that may fail
\* at any time.
DiskConfigs == TwoLists \cup {Cfg(<<Moved(u2)>>, 3, ta, TRUE)}

\* What the second publisher serves once it has changed its list.
BadLists == {[url |-> u2, rev |-> 2]}

DiskBudget ==
    [edit |-> Unlimited, disk |-> Unlimited, crash |-> Unlimited, lose |-> Unlimited,
     hup |-> Unlimited, term |-> 0, listener |-> 0]

\* Refreshes against slow publishers, the first of which is never reached: the second
\* list alone; after the first, of which there may be a copy; in its place, with its id.
LiveConfigs ==
    {Cfg(<<F2>>, 0, ta, TRUE), Cfg(<<F1, F2>>, 2, ta, TRUE), Cfg(<<Moved(u2)>>, 2, ta, TRUE)}

LiveBudget ==
    [edit |-> 1, disk |-> 0, crash |-> 0, lose |-> 0, hup |-> 1, term |-> 1, listener |-> 1]

QuietBudget == [e \in Event |-> 0]

NoCrashBudget == [QuietBudget EXCEPT !["disk"] = Unlimited]

=============================================================================
