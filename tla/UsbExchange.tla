---------------------------- MODULE UsbExchange ----------------------------
(***************************************************************************)
(* The USB tab of the Windows application: app/lib/pages/tabs/usb_tab.dart *)
(* with app/lib/util/usb/.  It pulls the files of the iPhone's USB-Outbox  *)
(* into the local USB-Inbox, copies selected files into the local          *)
(* USB-Outbox and pushes them to the iPhone's USB-Inbox, all by starting   *)
(* external programs that get a script of commands on stdin.               *)
(*                                                                         *)
(* Each visit to the tab creates a new state object with busy flags of its *)
(* own; what an earlier one has started goes on after it is disposed, and   *)
(* nothing keeps it and a new one from working on the same folder.         *)
(*                                                                         *)
(* A file is identified with its content: that of the phone's file n is n, *)
(* that of a file of the PC is the file itself.                            *)
(***************************************************************************)
EXTENDS Integers, Sequences, FiniteSets, FiniteSetsExt, SequencesExt

CONSTANTS
    Names,        \* file names, those on the phone among them
    Safe,         \* Safe[n]: the name that is made of n for Windows
    PcFiles,      \* files of the PC that may be selected
    NameOf,       \* NameOf[f]: the name of file f
    NTabs,        \* how often the tab is visited (bound)
    MaxJobs,      \* how many actions the user starts (bound)
    Partial       \* the content of a file that was not copied in full

ASSUME UsbAssumption ==
    /\ IsFiniteSet(Names) /\ IsFiniteSet(PcFiles)
    /\ Safe \in [Names -> Names] /\ \A n \in Names : Safe[Safe[n]] = Safe[n]
    /\ NameOf \in [PcFiles -> Names]
    /\ Names \cap PcFiles = {}
    /\ Partial \notin Names \cup PcFiles
    /\ NTabs \in Nat /\ MaxJobs \in Nat

Tabs == 1..NTabs

VARIABLES
    phoneOut,     \* the files in the phone's USB-Outbox
    phoneIn,      \* the phone's USB-Inbox: the content at each path
    inbox,        \* the local USB-Inbox
    outbox,       \* the local USB-Outbox
    tab,          \* the visit that is on screen, 0 if another tab is
    visits,       \* how many visits there were
    jobs,         \* how many actions were started
    job,          \* the action each visit has started, "none" if not busy
    at,           \* where that action is, "idle" if it has ended
    crossed,      \* has another action worked on its folder in the meantime?
    todo,         \* what it still has to look at
    script,       \* the copies it prepares or has told the tool to make
    done,         \* how many of them are through
    open,         \* is the tool in the middle of one?
    failed,       \* has the tool printed an error?
    result        \* the outcome the tab shows

dirVars == <<phoneOut, phoneIn, inbox, outbox>>
tabVars == <<tab, visits>>
workVars == <<job, crossed, todo, script, done, open, failed>>
jobVars == <<jobs, at, workVars, result>>
vars == <<dirVars, tabVars, jobVars>>

-----------------------------------------------------------------------------
\* <<n, 1, 1>> is the name n, <<n, 2, 1>> "n (2)" and <<n, 2, 3>> "n (2) (3)".
Paths == Names \X (Nat \ {0}) \X (Nat \ {0})

\* A directory is a function from its paths to their contents.
EmptyDir == [p \in {} |-> Partial]

\* The directory once content has been written at a path, whatever was there.
WriteFile(dir, path, content) ==
    [p \in DOMAIN dir \cup {path} |-> IF p = path THEN content ELSE dir[p]]

\* getAvailableUsbFile: the first path of that name that does not exist.
FreePath(dir, n) ==
    LET Nth(k) == <<n, k, 1>>
    IN  Nth(Min({k \in 1..(Cardinality(DOMAIN dir) + 1) : Nth(k) \notin DOMAIN dir}))

\* Mutation: names are not reserved within a pull.
Unreserved(dir, n, reserved) == FreePath(dir, n)

\* The same among paths that are not reserved; the number is put behind the name
\* that was free.
FreeReservedPath(dir, n, reserved) ==
    LET free == FreePath(dir, n)
        Nth(k) == IF free[2] = 1 THEN <<n, k, 1>> ELSE <<n, free[2], k>>
        taken == DOMAIN dir \cup reserved
    IN  Nth(Min({k \in 1..(Cardinality(taken) + 1) : Nth(k) \notin taken}))

Jobs == {"refresh", "detect", "pull", "push", "export", "clear"}

\* The local folder an action works on.
Folder(j) == CASE j = "pull" -> "inbox" [] j \in {"push", "export", "clear"} -> "outbox"
               [] OTHER -> "none"

\* The visits whose actions work on the folder of j.
AtWorkOn(folder) == {t \in Tabs : at[t] # "idle" /\ Folder(job[t]) = folder}

Init ==
    /\ phoneOut \in SUBSET Names
    /\ phoneIn = EmptyDir /\ inbox = EmptyDir /\ outbox = EmptyDir
    /\ tab = 0 /\ visits = 0 /\ jobs = 0
    /\ job = [t \in Tabs |-> "none"] /\ at = [t \in Tabs |-> "idle"]
    /\ crossed = [t \in Tabs |-> FALSE]
    /\ todo = [t \in Tabs |-> <<>>] /\ script = [t \in Tabs |-> <<>>]
    /\ done = [t \in Tabs |-> 0]
    /\ open = [t \in Tabs |-> FALSE] /\ failed = [t \in Tabs |-> FALSE]
    /\ result = [t \in Tabs |-> "none"]

Goto(t, place) == at' = [at EXCEPT ![t] = place]

Show(t, r) == result' = IF tab = t THEN [result EXCEPT ![t] = r] ELSE result

\* The local variables of an action go with it.
Forgets(t) ==
    /\ crossed' = [crossed EXCEPT ![t] = FALSE]
    /\ todo' = [todo EXCEPT ![t] = <<>>] /\ script' = [script EXCEPT ![t] = <<>>]
    /\ done' = [done EXCEPT ![t] = 0]
    /\ open' = [open EXCEPT ![t] = FALSE] /\ failed' = [failed EXCEPT ![t] = FALSE]

\* Mutation: an action leaves the busy flag.
EndsBusy(t) ==
    /\ Goto(t, "idle") /\ Forgets(t) /\ UNCHANGED job

\* The action is over.  The busy flag is taken back unless the visit has been
\* left: nobody looks at its flag any more.
Ends(t) ==
    /\ job' = IF tab = t THEN [job EXCEPT ![t] = "none"] ELSE job
    /\ Goto(t, "idle") /\ Forgets(t)

\* Mutation: an exception skips what follows the action.
FailsBusy(t) == EndsBusy(t) /\ Show(t, "error")

\* An exception.  A manual action reloads the folders before it ends.
Fails(t) ==
    \/ /\ job[t] \in {"export", "clear"}
       /\ Goto(t, "refresh")
       /\ UNCHANGED <<workVars, result>>
    \/ /\ job[t] \notin {"export", "clear"}
       /\ Ends(t) /\ Show(t, "error")

-----------------------------------------------------------------------------
(* Visits *)

\* initState: a new state object, which loads the folders.
Enter ==
    /\ tab = 0 /\ visits < NTabs
    /\ visits' = visits + 1 /\ tab' = visits'
    /\ job' = [job EXCEPT ![visits'] = "refresh"]
    /\ Goto(visits', "refresh")
    /\ UNCHANGED <<dirVars, jobs, crossed, todo, script, done, open, failed, result>>

\* Another tab is chosen: the page view disposes the state object.
Leave ==
    /\ tab # 0 /\ tab' = 0
    /\ result' = [result EXCEPT ![tab] = "none"]
    /\ UNCHANGED <<dirVars, visits, jobs, at, workVars>>

\* A button; while the state object is busy it does nothing.  It does not look
\* for actions of earlier visits.
Start(t, j) ==
    /\ tab = t /\ job[t] = "none" /\ jobs < MaxJobs
    /\ jobs' = jobs + 1
    /\ job' = [job EXCEPT ![t] = j]
    /\ LET others == IF Folder(j) = "none" THEN {} ELSE AtWorkOn(Folder(j))
       IN  crossed' = [u \in Tabs |-> IF u = t THEN others # {} ELSE crossed[u] \/ u \in others]
    /\ Goto(t, CASE j = "refresh" -> "refresh" [] j = "export" -> "pick"
                 [] j = "clear" -> "scan" [] OTHER -> "detect")
    /\ IF j \in {"push", "export"}
       THEN \E selected \in (SUBSET PcFiles) \ {{}} :
               \E order \in SetToSeqs(selected) : todo' = [todo EXCEPT ![t] = order]
       ELSE UNCHANGED todo
    /\ UNCHANGED <<dirVars, tabVars, script, done, open, failed, result>>

\* The phone's user puts files into its USB-Outbox and takes them out.
PhoneChanges ==
    /\ \E files \in SUBSET Names : files # phoneOut /\ phoneOut' = files
    /\ UNCHANGED <<phoneIn, inbox, outbox, tabVars, jobVars>>

-----------------------------------------------------------------------------
(* Steps of an action *)

\* idevice_id and idevicepair: exactly one trusted device, or a status text.
Detected(t) ==
    /\ at[t] = "detect"
    /\ Show(t, "none")
    /\ \/ Ends(t)
       \/ /\ job[t] # "detect"
          /\ Goto(t, IF job[t] = "pull" THEN "mkdir" ELSE "pick")
          /\ UNCHANGED workVars
    /\ UNCHANGED <<dirVars, tabVars, jobs>>

\* The remote folder exists or was made; errors in the output are ignored.
FolderReady(t) ==
    /\ at[t] = "mkdir"
    /\ Goto(t, IF job[t] = "pull" THEN "list" ELSE "put")
    /\ UNCHANGED <<dirVars, tabVars, jobs, crossed, job, todo, script, done, open, failed, result>>

\* ls on the phone's USB-Outbox.
Listed(t) ==
    /\ at[t] = "list"
    /\ \/ /\ phoneOut = {} /\ Show(t, "empty")
          /\ Goto(t, "refresh") /\ UNCHANGED todo
       \/ /\ phoneOut # {}
          /\ \E order \in SetToSeqs(phoneOut) : todo' = [todo EXCEPT ![t] = order]
          /\ Goto(t, "name") /\ UNCHANGED result
    /\ UNCHANGED <<dirVars, tabVars, jobs, crossed, job, script, done, open, failed>>

Copies(t) == {script[t][i].path : i \in 1..Len(script[t])}

\* The next file of a pull gets its local path, which nobody has created yet
\* and no earlier file of this pull has reserved.
LocalName(t) ==
    /\ at[t] = "name"
    /\ script' = [script EXCEPT ![t] = Append(@, [what |-> Head(todo[t]),
                    path |-> FreeReservedPath(inbox, Safe[Head(todo[t])], Copies(t))])]
    /\ todo' = [todo EXCEPT ![t] = Tail(@)]
    /\ Goto(t, IF Len(todo[t]) = 1 THEN "get" ELSE "name")
    /\ UNCHANGED <<dirVars, tabVars, jobs, crossed, job, done, open, failed, result>>

\* The next selected file gets its path in the local USB-Outbox ...
OutboxName(t) ==
    /\ at[t] = "pick"
    /\ script' = [script EXCEPT ![t] = Append(@, [what |-> Head(todo[t]),
                    path |-> FreePath(outbox, Safe[NameOf[Head(todo[t])]])])]
    /\ todo' = [todo EXCEPT ![t] = Tail(@)]
    /\ Goto(t, "write")
    /\ UNCHANGED <<dirVars, tabVars, jobs, crossed, job, done, open, failed, result>>

\* ... and is copied there, over whatever is there by now; or that fails.
OutboxWritten(t) ==
    LET copy == Last(script[t])
    IN  /\ at[t] = "write"
        /\ \/ /\ outbox' = WriteFile(outbox, copy.path, copy.what)
              /\ Goto(t, CASE todo[t] # <<>> -> "pick" [] job[t] = "push" -> "stat"
                           [] OTHER -> "refresh")
              /\ UNCHANGED <<workVars, result>>
           \/ /\ outbox' = WriteFile(outbox, copy.path, Partial)
              /\ Fails(t)
        /\ UNCHANGED <<phoneOut, phoneIn, inbox, tabVars, jobs>>

\* pushFiles looks whether each of its files is there.
Checked(t) ==
    LET last == done[t] + 1 = Len(script[t])
    IN  /\ at[t] = "stat"
        /\ \/ /\ script[t][done[t] + 1].path \notin DOMAIN outbox
              /\ Fails(t)
           \/ /\ script[t][done[t] + 1].path \in DOMAIN outbox
              /\ done' = [done EXCEPT ![t] = IF last THEN 0 ELSE @ + 1]
              /\ Goto(t, IF last THEN "mkdir" ELSE "stat")
              /\ UNCHANGED <<job, crossed, todo, script, open, failed, result>>
        /\ UNCHANGED <<dirVars, tabVars, jobs>>

\* afcclient: what a copy can read.  A pull asks for the safe name.
Sources(t, copy) ==
    IF at[t] = "get" THEN phoneOut \cap {Safe[copy.what]}
                     ELSE {outbox[p] : p \in DOMAIN outbox \cap {copy.path}}

Target(t, copy, content) ==
    \/ /\ at[t] = "get" /\ inbox' = WriteFile(inbox, copy.path, content)
       /\ UNCHANGED phoneIn
    \/ /\ at[t] = "put" /\ phoneIn' = WriteFile(phoneIn, copy.path, content)
       /\ UNCHANGED inbox

Copying(t) == at[t] \in {"get", "put"} /\ done[t] < Len(script[t])

\* The tool prints an error, for a source that is missing or any other reason,
\* and goes on with its next command.
CopyRefused(t) ==
    /\ Copying(t)
    /\ failed' = [failed EXCEPT ![t] = TRUE]
    /\ done' = [done EXCEPT ![t] = @ + 1]
    /\ open' = [open EXCEPT ![t] = FALSE]
    /\ UNCHANGED <<dirVars, tabVars, jobs, crossed, job, at, todo, script, result>>

\* The target is created, or truncated if it is there.
CopyBegins(t) ==
    LET copy == script[t][done[t] + 1]
    IN  /\ Copying(t) /\ ~open[t]
        /\ Sources(t, copy) # {}
        /\ Target(t, copy, Partial)
        /\ open' = [open EXCEPT ![t] = TRUE]
        /\ UNCHANGED <<phoneOut, outbox, tabVars, jobs, crossed, job, at, todo, script, done, failed, result>>

CopyEnds(t) ==
    LET copy == script[t][done[t] + 1]
    IN  /\ Copying(t) /\ open[t]
        /\ \E content \in Sources(t, copy) : Target(t, copy, content)
        /\ open' = [open EXCEPT ![t] = FALSE]
        /\ done' = [done EXCEPT ![t] = @ + 1]
        /\ UNCHANGED <<phoneOut, outbox, tabVars, jobs, crossed, job, at, todo, script, failed, result>>

\* Mutation: the exit code alone decides.
ToolExitsByCode(t) ==
    /\ at[t] \in {"get", "put"} /\ done[t] = Len(script[t])
    /\ Show(t, IF job[t] = "pull" THEN "pulled" ELSE "pushed")
    /\ Goto(t, "refresh") /\ UNCHANGED workVars
    /\ UNCHANGED <<dirVars, tabVars, jobs>>

\* The tool has worked off its script.  It succeeded if its exit code says so
\* and its output holds no error.
ToolExits(t) ==
    /\ at[t] \in {"get", "put"} /\ done[t] = Len(script[t])
    /\ \/ /\ ~failed[t]
          /\ Show(t, IF job[t] = "pull" THEN "pulled" ELSE "pushed")
          /\ Goto(t, "refresh") /\ UNCHANGED workVars
       \/ Fails(t)
    /\ UNCHANGED <<dirVars, tabVars, jobs>>

\* A tool cannot be started, exits with an error in the middle, or is killed
\* after its time.
ToolFails(t) ==
    /\ at[t] \in {"mkdir", "list", "get", "put"}
    /\ Fails(t)
    /\ UNCHANGED <<dirVars, tabVars, jobs>>

\* Clear USB-Outbox: the entries of the folder are listed ...
Scanned(t) ==
    /\ at[t] = "scan"
    /\ \E order \in SetToSeqs(DOMAIN outbox) : todo' = [todo EXCEPT ![t] = order]
    /\ Goto(t, "clear")
    /\ UNCHANGED <<dirVars, tabVars, jobs, crossed, job, script, done, open, failed, result>>

\* ... and deleted one by one; one that cannot be deleted ends it.
Cleared(t) ==
    /\ at[t] = "clear"
    /\ \/ /\ todo[t] # <<>>
          /\ outbox' = Restrict(outbox, DOMAIN outbox \ {Head(todo[t])})
          /\ todo' = [todo EXCEPT ![t] = Tail(@)]
          /\ UNCHANGED <<job, at, crossed, script, done, open, failed, result>>
       \/ todo[t] = <<>> /\ Goto(t, "refresh") /\ UNCHANGED <<outbox, workVars, result>>
       \/ todo[t] # <<>> /\ Fails(t) /\ UNCHANGED outbox
    /\ UNCHANGED <<phoneOut, phoneIn, inbox, tabVars, jobs>>

\* The folders have been read again.
Refreshed(t) ==
    /\ at[t] = "refresh"
    /\ Ends(t)
    /\ UNCHANGED <<dirVars, tabVars, jobs, result>>

-----------------------------------------------------------------------------
JobStep(t) ==
    \/ Detected(t) \/ FolderReady(t) \/ Listed(t) \/ LocalName(t)
    \/ OutboxName(t) \/ OutboxWritten(t) \/ Checked(t)
    \/ CopyRefused(t) \/ CopyBegins(t) \/ CopyEnds(t)
    \/ ToolExits(t) \/ ToolFails(t)
    \/ Scanned(t) \/ Cleared(t) \/ Refreshed(t)

UserStep == \/ Enter \/ Leave \/ PhoneChanges
            \/ \E t \in Tabs, j \in Jobs : Start(t, j)

Next == (\E t \in Tabs : JobStep(t)) \/ UserStep

Spec == Init /\ [][Next]_vars

\* Every tool is killed after its time and every file operation returns.
FairSpec == Spec /\ \A t \in Tabs : WF_vars(JobStep(t))

-----------------------------------------------------------------------------
(* Properties *)

IsDirectory(dir) == /\ DOMAIN dir \subseteq Paths
                    /\ \A p \in DOMAIN dir : dir[p] \in Names \cup PcFiles \cup {Partial}

\* Every variable has its type; the visit on screen is busy exactly while its
\* action is somewhere, and only a tool at work has a file open.
TypeOK ==
    /\ phoneOut \in SUBSET Names
    /\ IsDirectory(phoneIn) /\ IsDirectory(inbox) /\ IsDirectory(outbox)
    /\ tab \in 0..NTabs /\ visits \in 0..NTabs /\ jobs \in 0..MaxJobs
    /\ job \in [Tabs -> Jobs \cup {"none"}]
    /\ at \in [Tabs -> {"idle", "refresh", "detect", "mkdir", "list", "name", "pick",
                        "write", "stat", "get", "put", "scan", "clear"}]
    /\ \A t \in Tabs : /\ job[t] = "none" => at[t] = "idle"
                       /\ at[t] = "idle" /\ tab = t => job[t] = "none"
    /\ crossed \in [Tabs -> BOOLEAN]
    /\ todo \in [Tabs -> Seq(Names \cup PcFiles \cup Paths)]
    /\ script \in [Tabs -> Seq([what : Names \cup PcFiles, path : Paths])]
    /\ done \in [Tabs -> Nat] /\ \A t \in Tabs : done[t] <= Len(script[t])
    /\ open \in [Tabs -> BOOLEAN] /\ failed \in [Tabs -> BOOLEAN]
    /\ \A t \in Tabs : open[t] => at[t] \in {"get", "put"}
    /\ result \in [Tabs -> {"none", "empty", "pulled", "pushed", "error"}]

\* Visit t has just shown the result r of its action j, and no other action
\* has worked on the same local folder while that was under way.
Reports(t, j, r) == at[t] = "refresh" /\ job[t] = j /\ result[t] = r /\ ~crossed[t]

\* "Pulled n file(s)": every file it counts whose name needs no change is
\* complete in the local USB-Inbox, at the path of its own.
PulledIsHere ==
    \A t \in Tabs : Reports(t, "pull", "pulled") =>
        \A i \in 1..Len(script[t]) :
            LET copy == script[t][i]
            IN  Safe[copy.what] = copy.what =>
                    copy.path \in DOMAIN inbox /\ inbox[copy.path] = copy.what

\* "Pushed n file(s)": every file it counts is complete on the phone.
PushedIsOnPhone ==
    \A t \in Tabs : Reports(t, "push", "pushed") =>
        \A i \in 1..Len(script[t]) :
            LET copy == script[t][i]
            IN  copy.path \in DOMAIN phoneIn /\ phoneIn[copy.path] = copy.what

\* What a success message counts is where the message says, although the phone's
\* user, the tools and the action of a visit that was left go on meanwhile.
\* Only two actions on the same folder can make a message wrong: nothing keeps
\* them from choosing the same free name.
ReportsAreTrue == PulledIsHere /\ PushedIsOnPhone

Uncrossed(folder) == \A t \in AtWorkOn(folder) : ~crossed[t]

\* A file that is complete in a local folder is never written again, as long as
\* no two actions work on that folder at once: a file of the same name gets a
\* new one.  The USB-Outbox may be cleared.
SavedUnderNewNames ==
    [][/\ Uncrossed("inbox") => \A p \in DOMAIN inbox : inbox[p] \in Names =>
              p \in DOMAIN inbox' /\ inbox'[p] = inbox[p]
       /\ Uncrossed("outbox") => \A p \in DOMAIN outbox \cap DOMAIN outbox' :
              outbox[p] \in PcFiles => outbox'[p] = outbox[p]]_vars

\* Whatever the phone and the tools do, a visit that stays on screen becomes
\* free again, and the action of one that was left comes to an end too.
BusyEnds == \A t \in Tabs : at[t] # "idle" ~> at[t] = "idle" /\ (job[t] = "none" \/ tab # t)

=============================================================================
