------------------------------ MODULE ConsolePage ------------------------------
(***************************************************************************)
(* The log table of the console in a browser, on top of ChangeFeed: the    *)
(* event source and its debounced refresh (static/js/app.js) and loadLogs  *)
(* (static/js/logs.js), which has several callers and may be under way     *)
(* several times at once. The server answers with the log as it is when it *)
(* gets to the request; answers reach the page in any order, or not at     *)
(* all.                                                                    *)
(*                                                                         *)
(* Of the log counts which change made it what it is, and whether it is    *)
(* empty; a change of the configuration makes an event too and leaves the  *)
(* log alone. Of the table only the first page matters, and what loadLogs  *)
(* compares it by: the total and the items of the page that was loaded. A  *)
(* page and its total are read at one moment. The view is that of the      *)
(* logs, with the filters left alone; loadConfig, which goes before a      *)
(* refresh and may fail, is time that passes.                              *)
(***************************************************************************)
EXTENDS ChangeFeed, FiniteSets

CONSTANTS MaxLoads,   \* bound: calls of loadLogs under way at a time
          MaxExtra,   \* bound: loads the user asks for and events without news
          MaxCloses   \* bound: how often a stream breaks

ASSUME PageAssumption == MaxLoads \in Nat \ {0} /\ MaxExtra \in Nat /\ MaxCloses \in Nat

VARIABLES rows,    \* the log: the change that made it what it is, or Empty
          mail,    \* an event is on its way to the page
          timer,   \* changeDebounce is set
          load,    \* the calls of loadLogs
          newest,  \* the call that was made last
          screen,  \* what the table shows: "list", "skeleton" or "error"
          logs,    \* state.logs, the list: rows when it was read
          sig,     \* state.logsSig: which list it is of
          seen,    \* the latest moment of which a list was loaded
          late,    \* rows were shown although a later list had been loaded
          lost,    \* the call made last failed
          extra,   \* how many extras there were
          closes

browser == <<mail, timer, load, newest, screen, logs, sig, seen, late, lost>>
bounds == <<extra, closes>>
vars == <<feed, rows, browser, bounds>>

Empty == 0      \* no rows; its signature is "0|", of whatever page
None == -1      \* no list was read yet
NextPage == -2  \* rows of another page than the first, or their signature
Slots == 1..MaxLoads
-------------------------------------------------------------------------------
PageInit == /\ Init
            /\ rows = Empty
            /\ mail = [c \in Clients |-> FALSE]
            /\ timer = [c \in Clients |-> FALSE]
            /\ load = [c \in Clients |-> [k \in Slots |-> [at |-> "off"]]]
            /\ newest = [c \in Clients |-> 1]
            /\ screen = [c \in Clients |-> "list"]
            /\ logs = [c \in Clients |-> None]
            /\ sig = [c \in Clients |-> None]
            /\ seen = [c \in Clients |-> None]
            /\ late = [c \in Clients |-> FALSE]
            /\ lost = [c \in Clients |-> FALSE]
            /\ extra = 0
            /\ closes = 0

(***************************************************************************)
(* The server's side: a change leaves the log alone, empties it or makes   *)
(* another of it. An event on its way is lost with its stream, or not.     *)
(***************************************************************************)
Changes == /\ Change
           /\ rows' \in {rows, Empty, version'}
           /\ UNCHANGED <<browser, bounds>>

Opens(c) == /\ Open(c)
            /\ UNCHANGED <<rows, browser, bounds>>

Closes(c) == /\ closes < MaxCloses
             /\ closes' = closes + 1
             /\ Close(c)
             /\ \E kept \in BOOLEAN : mail' = [mail EXCEPT ![c] = @ /\ kept]
             /\ UNCHANGED <<rows, timer, load, newest, screen, logs, sig, seen, late,
                            lost, extra>>

Tells(c) == /\ Tell(c)
            /\ mail' = [mail EXCEPT ![c] = TRUE]
            /\ UNCHANGED <<rows, timer, load, newest, screen, logs, sig, seen, late,
                           lost, bounds>>

\* A token that was left when its change had been told already.
TellsAgain(c) == /\ c \in open /\ told[c] = version
                 /\ extra < MaxExtra
                 /\ extra' = extra + 1
                 /\ mail' = [mail EXCEPT ![c] = TRUE]
                 /\ UNCHANGED <<feed, rows, timer, load, newest, screen, logs, sig,
                                seen, late, lost, closes>>
-------------------------------------------------------------------------------
\* Mutant of onServerChange: an event that finds a load under way is dropped.
IgnoreWhileLoading(c) ==
  /\ mail[c]
  /\ mail' = [mail EXCEPT ![c] = FALSE]
  /\ timer' = [timer EXCEPT ![c] = \/ @
                                   \/ \A k \in Slots : load[c][k].at = "off"]
  /\ UNCHANGED <<feed, rows, load, newest, screen, logs, sig, seen, late, lost, bounds>>

\* The timer is set, or set anew.
onServerChange(c) ==
  /\ mail[c]
  /\ mail' = [mail EXCEPT ![c] = FALSE]
  /\ timer' = [timer EXCEPT ![c] = TRUE]
  /\ UNCHANGED <<feed, rows, load, newest, screen, logs, sig, seen, late, lost, bounds>>

(***************************************************************************)
(* loadLogs: "silent" after an event, "reset" when the user refreshes,     *)
(* "more" for the next page. Before it waits, a reset clears the table.    *)
(***************************************************************************)
loadLogs(c, kind) ==
  \E k \in Slots :
    /\ load[c][k].at = "off"
    /\ load' = [load EXCEPT ![c][k] = [at |-> "asked", kind |-> kind]]
    /\ IF kind = "more"
         THEN UNCHANGED <<newest, lost>>
         ELSE /\ newest' = [newest EXCEPT ![c] = k]
              /\ lost' = [lost EXCEPT ![c] = FALSE]
    /\ screen' = [screen EXCEPT ![c] = IF kind = "reset" THEN "skeleton" ELSE @]

Refresh(c) == /\ timer[c]
              /\ timer' = [timer EXCEPT ![c] = FALSE]
              /\ loadLogs(c, "silent")
              /\ UNCHANGED <<feed, rows, mail, logs, sig, seen, late, bounds>>

\* The button for more is there while the list has rows.
UserLoads(c) == /\ extra < MaxExtra
                /\ extra' = extra + 1
                /\ \/ loadLogs(c, "reset")
                   \/ logs[c] \notin {None, Empty} /\ loadLogs(c, "more")
                /\ UNCHANGED <<feed, rows, mail, timer, logs, sig, seen, late, closes>>

\* listLogs on the server.
Read(c, k) == /\ load[c][k].at = "asked"
              /\ load' = [load EXCEPT ![c][k] = [at |-> "read", kind |-> @.kind,
                                                 of |-> rows, moment |-> version]]
              /\ UNCHANGED <<feed, rows, mail, timer, newest, screen, logs, sig, seen,
                             late, lost, bounds>>

off(c, k) == load' = [load EXCEPT ![c][k] = [at |-> "off"]]

\* What came of the list: the next page of a log that has rows is of none.
signature(c, k) ==
  IF load[c][k].kind = "more" /\ load[c][k].of # Empty THEN NextPage ELSE load[c][k].of

\* A silent load of the list that state.logsSig is of ends there.
Same(c, k) == load[c][k].kind = "silent" /\ signature(c, k) = sig[c]

\* A first page was loaded: the page now knows the log of that moment.
Knows(c, k) == seen' = [seen EXCEPT ![c] = IF @ < load[c][k].moment
                                             THEN load[c][k].moment ELSE @]

Keep(c, k) == /\ load[c][k].at = "read"
              /\ Same(c, k)
              /\ off(c, k)
              /\ Knows(c, k)
              /\ UNCHANGED <<feed, rows, mail, timer, newest, screen, logs, sig, late,
                             lost, bounds>>

\* The next page is put after the list; it may be empty although the log is not.
Append(c, k) == /\ \/ UNCHANGED logs
                   \/ /\ logs[c] = Empty /\ load[c][k].of # Empty
                      /\ logs' = [logs EXCEPT ![c] = NextPage]
                /\ late' = [late EXCEPT ![c] = @ \/ load[c][k].moment < seen[c]]
                /\ UNCHANGED seen

Replace(c, k) == /\ logs' = [logs EXCEPT ![c] = load[c][k].of]
                 /\ Knows(c, k)
                 /\ late' = [late EXCEPT ![c] = load[c][k].moment < seen[c]]

Show(c, k) ==
  /\ load[c][k].at = "read"
  /\ ~Same(c, k)
  /\ off(c, k)
  /\ sig' = [sig EXCEPT ![c] = signature(c, k)]
  /\ screen' = [screen EXCEPT ![c] = "list"]
  /\ IF load[c][k].kind = "more" THEN Append(c, k) ELSE Replace(c, k)
  /\ UNCHANGED <<feed, rows, mail, timer, newest, lost, bounds>>

\* Only a load that is not silent says so in the table.
Fail(c, k) ==
  /\ load[c][k].at # "off"
  /\ off(c, k)
  /\ screen' = [screen EXCEPT ![c] = IF load[c][k].kind = "reset" THEN "error" ELSE @]
  /\ lost' = [lost EXCEPT ![c] = @ \/ (k = newest[c] /\ load[c][k].kind # "more")]
  /\ UNCHANGED <<feed, rows, mail, timer, newest, logs, sig, seen, late, bounds>>
-------------------------------------------------------------------------------
Answers(c) == \E k \in Slots : Read(c, k) \/ Keep(c, k) \/ Show(c, k) \/ Fail(c, k)

PageNext == \/ Changes
            \/ \E c \in Clients : \/ Opens(c) \/ Closes(c)
                                  \/ Tells(c) \/ TellsAgain(c)
                                  \/ onServerChange(c) \/ Refresh(c) \/ UserLoads(c)
                                  \/ Answers(c)

(***************************************************************************)
(* The event source reconnects; the feed is fair; the browser runs its     *)
(* callbacks and each fetch ends. That the timer goes off although every   *)
(* event sets it anew needs a pause of 250 ms between two events; here it  *)
(* comes because the changes end.                                          *)
(***************************************************************************)
PageSpec == /\ PageInit /\ [][PageNext]_vars
            /\ \A c \in Clients : /\ WF_vars(Opens(c))
                                  /\ WF_vars(Tells(c))
                                  /\ WF_vars(onServerChange(c))
                                  /\ WF_vars(Refresh(c))
                                  /\ WF_vars(Answers(c))
-------------------------------------------------------------------------------
(***************************************************************************)
(* Once changes end, the table comes to show the log as it is, although    *)
(* events carry no data, refreshes overlap, streams break and reconnect    *)
(* (app.js:99-135, logs.js:122-206). The exceptions are the code's, at     *)
(* the longest until the user refreshes or the log has changed and is not  *)
(* empty: the load made last failed; a late answer of an earlier moment    *)
(* was shown over a newer one; the table shows that the user's refresh     *)
(* failed, and the silent load that succeeded after it found the list      *)
(* unchanged; and the table shows rows of a log that has none any more,    *)
(* because the next page came back empty, which left the signature that    *)
(* the silent load of an empty log then finds.                             *)
(***************************************************************************)
PageCatchesUp ==
  <>[](\A c \in Clients : \/ screen[c] = "list" /\ logs[c] = rows
                          \/ lost[c]
                          \/ late[c]
                          \/ screen[c] = "error" /\ logs[c] = rows
                          \/ rows = Empty /\ sig[c] = Empty /\ logs[c] # Empty)
===============================================================================
