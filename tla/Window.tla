------------------------------- MODULE Window -------------------------------
(***************************************************************************)
(* The main window and its dialogs, around the short connections its       *)
(* handlers make on the UI thread: the combo box of servers, the settings  *)
(* of SSL and of the log, ping, Start Watch, and the two double clicks.    *)
(* What becomes of a watch that was started is in WatchTable; a row is     *)
(* here the name of its server and, as history, the address it was started *)
(* with.                                                                   *)
(*                                                                         *)
(* A handler that connects is two steps, the click and its end, because    *)
(* servers and key files change under it; the others are one.              *)
(*                                                                         *)
(* Definitions named Bug... are steps with one plausible mistake each: a   *)
(* property must fail when one of them takes the place of the definition   *)
(* that follows it.                                                        *)
(***************************************************************************)
EXTENDS Address, LogText, Filter, SequencesExt

CONSTANTS
    Name, Ip,              \* the texts a user types as name and as address
    HostName, HostIp,      \* "HOST" and "127.0.0.1"
    Lines,                 \* what can be typed as a number of lines
    File,                  \* the contents a watched file may have
    None,                  \* no value
    MaxServers, MaxRows    \* bounds: combo entries, rows

ASSUME NameAssumption == Name \subseteq Seq(Char) /\ HostName \in Name
ASSUME IpAssumption ==
    /\ Ip \subseteq Seq(Char) /\ HostIp \in Ip
    /\ \A ip \in Ip : \A i \in DOMAIN ip : ip[i] # Open
ASSUME LinesAssumption ==
    0 \in Lines /\ Lines \subseteq Nat \cup {Refused} /\ None \notin Lines
ASSUME FileAssumption == File \subseteq Seq(Byte)
ASSUME BoundAssumption == MaxServers \in Nat /\ MaxRows \in Nat

VARIABLES
    combo,      \* the texts of the combo box
    current,    \* its current entry, 0 when it is empty
    entered,    \* history: what the user typed for each entry
    known,      \* history: every server ever entered
    ipnamemap,  \* name -> address, for the names it has
    rows,       \* the table
    setting,    \* the log setting
    ssl,        \* sslaction is checked
    keys,       \* the key and certificate files can be loaded
    ui,         \* the connecting handler the UI thread is in
    shown,      \* history: the log the last step has shown
    uncaught    \* the exception or signal that has ended the program, or None

servers == <<combo, current, entered, known>>
watches == <<ipnamemap, rows>>
options == <<setting, ssl, keys>>
vars == <<servers, watches, options, ui, shown, uncaught>>

Idle == [at |-> "idle", server |-> <<>>, ip |-> <<>>, own |-> <<>>]

Init ==  \* errifierui::errifierui
    /\ combo = <<Item(HostName, HostIp)>>
    /\ current = 1
    /\ entered = <<[name |-> HostName, ip |-> HostIp]>>
    /\ known = {[name |-> HostName, ip |-> HostIp]}
    /\ ipnamemap = <<>>
    /\ rows = <<>>
    /\ setting = [checkbox |-> 1, logLines |-> 0]
    /\ ssl = FALSE
    /\ keys \in BOOLEAN
    /\ ui = Idle
    /\ shown = None
    /\ uncaught = None

Alive == uncaught = None

\* The next handler: the event loop calls one at a time.
Ready == Alive /\ ui.at = "idle" /\ shown' = None /\ UNCHANGED uncaught

-----------------------------------------------------------------------------
(***************************************************************************)
(* The combo box.  A first entry becomes the current one; when the current *)
(* one is removed the next one takes its place, or else the last.          *)
(***************************************************************************)
CurrentText == IF current = 0 THEN <<>> ELSE combo[current]

AddServer(name, ip) ==  \* addServerHandler: two fields, neither blank
    /\ Ready
    /\ name # <<>> /\ ip # <<>> /\ Len(combo) < MaxServers
    /\ combo' = Append(combo, Item(name, ip))
    /\ current' = IF current = 0 THEN 1 ELSE current
    /\ entered' = Append(entered, [name |-> name, ip |-> ip])
    /\ known' = known \cup {[name |-> name, ip |-> ip]}
    /\ UNCHANGED <<watches, options, ui>>

Select(i) ==
    /\ Ready
    /\ current' = i
    /\ UNCHANGED <<combo, entered, known, watches, options, ui>>

\* The rows removeServerHandler leaves of the table, for a name.
OtherRows(name) == Only(rows, [server : Name \ {name}, ip : Ip])

BugKeepsIndex ==
    /\ Ready
    /\ current # 0
    /\ combo' = RemoveAt(combo, current)
    /\ entered' = RemoveAt(entered, current)
    /\ rows' = OtherRows(NameOf(CurrentText))
    /\ UNCHANGED <<current, known, ipnamemap, options, ui>>

RemoveServer ==  \* removeServerHandler; on an empty combo box it finds ""
    /\ Ready
    /\ current # 0
    /\ combo' = RemoveAt(combo, current)
    /\ entered' = RemoveAt(entered, current)
    /\ current' = IF current = Len(combo) THEN current - 1 ELSE current
    /\ rows' = OtherRows(NameOf(CurrentText))
    /\ UNCHANGED <<known, ipnamemap, options, ui>>

-----------------------------------------------------------------------------
(***************************************************************************)
(* The settings.  The log dialog starts from the setting it is given; both *)
(* of its ways out accept what it shows.                                   *)
(***************************************************************************)
ToggleSSL ==
    /\ Ready
    /\ ssl' = ~ssl
    /\ UNCHANGED <<servers, watches, setting, keys, ui>>

BugShowsNoLines(s) == [checkbox |-> s.checkbox, text |-> None]

\* The radio button and the text field of the dialog as it opens.
DialogShows(s) ==
    [checkbox |-> s.checkbox,
     text |-> IF s.checkbox = 1 THEN None ELSE s.logLines]

DialogReturns(d) ==
    [checkbox |-> d.checkbox,
     logLines |-> IF d.checkbox = 1 \/ d.text = None THEN 0 ELSE d.text]

Edited == [checkbox : {0, 1}, text : Lines \cup {None}]

SetLogOption(d) ==  \* logSettingHandler, setLogOption; d is what the user leaves
    /\ Ready
    /\ setting' = DialogReturns(d)
    /\ UNCHANGED <<servers, watches, ssl, keys, ui>>

-----------------------------------------------------------------------------
(***************************************************************************)
(* Clicks that connect: the address is worked out, then the UI thread is   *)
(* in the set-up of the transport and in the call.                         *)
(***************************************************************************)
Click(at) ==  \* on_ping_clicked, on_pushButton_clicked
    /\ Ready
    /\ ui' = [at |-> at, server |-> NameOf(CurrentText),
              ip |-> IpOf(CurrentText), own |-> <<>>]
    /\ UNCHANGED <<servers, watches, options>>

BugDialCurrent(i, at) ==
    /\ Ready
    /\ ui' = [at |-> at, server |-> rows[i].server,
              ip |-> IpOf(CurrentText), own |-> rows[i].ip]
    /\ UNCHANGED <<servers, watches, options>>

DoubleClick(i, at) ==  \* on_tableView_doubleClicked, on the file or the status
    /\ Ready
    /\ ui' = [at |-> at, server |-> rows[i].server,
              ip |-> ipnamemap[rows[i].server], own |-> rows[i].ip]
    /\ UNCHANGED <<servers, watches, options>>

OfRow == {"log", "status"}
Connecting == {"ping", "watch"} \cup OfRow

(***************************************************************************)
(* The exceptions and their base classes, and what each handler catches    *)
(* once it is inside its try block; the set-up of SSL is outside for the   *)
(* double click.                                                           *)
(***************************************************************************)
IsA(e) ==
    CASE e = "TSSLException" -> {e, "TTransportException", "std::exception"}
      [] OTHER -> {e, "std::exception"}

BugCatchesSSLOnly(at) ==
    IF at = "ping" THEN {"TSSLException"} ELSE {"std::exception"}

Catches(at) ==
    IF at = "ping" THEN {"TSSLException", "TTransportException"}
    ELSE {"std::exception"}

Finished == ui' = Idle /\ shown' = None

Throws(e, caught) ==
    /\ uncaught' = IF caught \cap IsA(e) = {} THEN e ELSE None
    /\ Finished
    /\ UNCHANGED <<servers, watches, options>>

SetUpThrows ==  \* loadPrivateKey and its like
    /\ Alive /\ ui.at \in Connecting /\ ssl /\ ~keys
    /\ Throws("TSSLException", IF ui.at \in OfRow THEN {} ELSE Catches(ui.at))

Connects == Alive /\ ui.at \in Connecting /\ (ssl => keys)

CallThrows(e) ==  \* open, or a call
    /\ Connects
    /\ e = "TSSLException" => ssl
    /\ Throws(e, Catches(ui.at))

(***************************************************************************)
(* OpenSSL writes, also to shut down, with write(), which raises SIGPIPE   *)
(* when the other side has reset the connection.  Nothing here ignores it; *)
(* a write without SSL asks for no signal.                                 *)
(***************************************************************************)
WriteSignals ==
    /\ Connects /\ ssl
    /\ uncaught' = "SIGPIPE"
    /\ Finished
    /\ UNCHANGED <<servers, watches, options>>

\* ping and its message; isFileExist returned 0; a double click on a status.
Returns ==
    /\ Connects
    /\ ui.at # "log" /\ ui.ip # <<>>
    /\ Finished
    /\ UNCHANGED <<servers, watches, options, uncaught>>

\* insert keeps the address it has for a name.
RememberIp ==
    ipnamemap' = [n \in DOMAIN ipnamemap \cup {ui.server} |->
                     IF n \in DOMAIN ipnamemap THEN ipnamemap[n] ELSE ui.ip]

(***************************************************************************)
(* The file exists; startNewThread starts a watch, or returns -100.        *)
(***************************************************************************)
StartsWatch ==
    /\ Connects /\ ui.at = "watch" /\ ui.ip # <<>>
    /\ RememberIp
    /\ rows' \in {rows} \cup
           (IF Len(rows) < MaxRows
            THEN {Append(rows, [server |-> ui.server, ip |-> ui.ip])} ELSE {})
    /\ Finished
    /\ UNCHANGED <<servers, options, uncaught>>

ShowsLog(t) ==  \* getLog with the setting, shown in a window of its own
    /\ Connects /\ ui.at = "log"
    /\ ui' = Idle
    /\ shown' = [file |-> t,
                 text |-> GetLog(t, setting.checkbox, setting.logLines)]
    /\ UNCHANGED <<servers, watches, options, uncaught>>

KeysChange ==  \* the user installs the files, or they become unreadable
    /\ Alive
    /\ keys' = ~keys
    /\ UNCHANGED <<servers, watches, setting, ssl, ui, shown, uncaught>>

-----------------------------------------------------------------------------
Exception == {"TSSLException", "TTransportException", "TApplicationException"}

HandlerEnds ==
    \/ SetUpThrows \/ Returns \/ StartsWatch \/ WriteSignals
    \/ \E e \in Exception : CallThrows(e)
    \/ \E t \in File : ShowsLog(t)

Next ==
    \/ \E name \in Name, ip \in Ip : AddServer(name, ip)
    \/ \E i \in DOMAIN combo : Select(i)
    \/ RemoveServer
    \/ ToggleSSL
    \/ \E d \in Edited : SetLogOption(d)
    \/ \E at \in {"ping", "watch"} : Click(at)
    \/ \E i \in DOMAIN rows, at \in OfRow : DoubleClick(i, at)
    \/ HandlerEnds
    \/ KeysChange

Spec == Init /\ [][Next]_vars

-----------------------------------------------------------------------------
Server == [name : Name, ip : Ip]

\* The values of the variables; the current entry is one of the combo box.
TypeOK ==
    /\ combo \in Seq(Seq(Char)) /\ entered \in Seq(Server)
    /\ current \in 0 .. Len(combo) /\ (current = 0 <=> combo = <<>>)
    /\ known \in SUBSET Server
    /\ DOMAIN ipnamemap \subseteq Name /\ \A n \in DOMAIN ipnamemap : ipnamemap[n] \in Ip
    /\ rows \in Seq([server : Name, ip : Ip])
    /\ setting \in [checkbox : {0, 1}, logLines : Lines]
    /\ ssl \in BOOLEAN /\ keys \in BOOLEAN
    /\ uncaught \in Exception \cup {"SIGPIPE", None}
    /\ ui.at \in Connecting \cup {"idle"}

(***************************************************************************)
(* The handlers act on the server the user entered for the current entry,  *)
(* whose text is all they have: a ping and a watch dial its address, and a *)
(* removal prunes the rows of its name and no others, through any sequence *)
(* of additions, selections and removals, also when a name has parentheses *)
(* of its own.                                                             *)
(***************************************************************************)
ActsOnEntered ==
    [][ /\ \A at \in {"ping", "watch"} : Click(at) /\ current # 0 =>
               ui'.server = entered[current].name /\ ui'.ip = entered[current].ip
        /\ RemoveServer => rows' = OtherRows(entered[current].name)
      ]_vars

(***************************************************************************)
(* A double click on a row dials the server its watch runs on, long after  *)
(* its entry may have left the combo box, provided the user never entered  *)
(* two addresses under that name (ipnamemap keeps the first for ever).     *)
(***************************************************************************)
RowDialsItsServer ==
    ui.at \in OfRow =>
        \/ ui.ip = ui.own
        \/ \E s, t \in known : s.name = ui.server /\ t.name = ui.server /\ s.ip # t.ip

\* Looking at the log setting and closing its dialog leaves it as it was.
LookingChangesNothing ==
    [][SetLogOption(DialogShows(setting)) => setting' = setting]_vars

(***************************************************************************)
(* A handler that connects ends the client in three ways and no other: a   *)
(* ping answered with an application error; with SSL, a double click       *)
(* without the key files; and, with SSL, a signal for a write to a         *)
(* connection that was reset.  So without SSL a server that cannot be      *)
(* reached or goes away in a call never ends it.                           *)
(***************************************************************************)
WaysToEnd ==
    [][uncaught' # None =>
          \/ ui.at = "ping" /\ uncaught' = "TApplicationException"
          \/ ssl /\ ui.at \in OfRow /\ uncaught' = "TSSLException" /\ ~keys
          \/ ssl /\ uncaught' = "SIGPIPE"]_vars

(***************************************************************************)
(* The reading in pieces loses, doubles and reorders nothing: without the  *)
(* separators the log that is shown is the whole output of the command, if *)
(* that has no NUL; and when its lines fit the buffer each line has one    *)
(* separator, at its end.                                                  *)
(***************************************************************************)
LogIsComplete ==
    shown # None =>
        LET output == Output(shown.file, setting.checkbox, setting.logLines)
        IN  Positions(output, Nul) = {} =>
                /\ Only(shown.text, Byte) = output
                /\ LinesFit(output) => shown.text = Separated(output)

=============================================================================
