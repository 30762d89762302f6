---------------------------- MODULE WindowProofs ----------------------------
(***************************************************************************)
(* Proofs about Window, for any names, addresses and numbers of entries:   *)
(* the handlers take from the text of an entry exactly what the user has   *)
(* typed, which exceptions can end the client, and what the log dialog     *)
(* keeps.                                                                  *)
(*                                                                         *)
(* The combo box holds texts only.  What has to be shown besides the       *)
(* parsing is that the history `entered` stays in step with it (ComboInv). *)
(***************************************************************************)
EXTENDS Window, LogTextProofs

\* The text of an entry, character by character.
LEMMA ItemProperties ==
    ASSUME NEW name \in Seq(Char), NEW ip \in Seq(Char)
    PROVE  /\ Item(name, ip) \in Seq(Char)
           /\ Len(Item(name, ip)) = Len(name) + Len(ip) + 2
           /\ \A i \in 1 .. Len(name) : Item(name, ip)[i] = name[i]
           /\ Item(name, ip)[Len(name) + 1] = Open
           /\ \A i \in 1 .. Len(ip) : Item(name, ip)[Len(name) + 1 + i] = ip[i]
           /\ Item(name, ip)[Len(name) + Len(ip) + 2] = Closed
<1> DEFINE a == name \o <<Open>>
           b == a \o ip
<1>1. <<Open>> \in Seq(Char) /\ <<Closed>> \in Seq(Char)
  BY CharAssumption
<1>2. Len(name) \in Nat /\ Len(ip) \in Nat
  OBVIOUS
<1>3. /\ a \in Seq(Char) /\ Len(a) = Len(name) + 1
      /\ \A i \in 1 .. Len(name) : a[i] = name[i]
      /\ a[Len(name) + 1] = Open
  BY <1>1, <1>2
<1> HIDE DEF a
<1>4. /\ b \in Seq(Char) /\ Len(b) = Len(name) + 1 + Len(ip)
      /\ \A i \in 1 .. Len(a) : b[i] = a[i]
      /\ \A i \in 1 .. Len(ip) : b[Len(name) + 1 + i] = ip[i]
  BY <1>2, <1>3
<1> HIDE DEF b
<1>5. Item(name, ip) = b \o <<Closed>>
  BY DEF Item, a, b
<1>6. /\ Item(name, ip) \in Seq(Char) /\ Len(Item(name, ip)) = Len(b) + 1
      /\ \A i \in 1 .. Len(b) : Item(name, ip)[i] = b[i]
      /\ Item(name, ip)[Len(b) + 1] = Closed
  BY <1>1, <1>4, <1>5
<1>7. \A i \in 1 .. Len(name) : Item(name, ip)[i] = name[i]
  BY <1>2, <1>3, <1>4, <1>6
<1>8. Item(name, ip)[Len(name) + 1] = Open
  <2>1. Len(name) + 1 \in 1 .. Len(a) /\ Len(name) + 1 \in 1 .. Len(b)
    BY <1>2, <1>3, <1>4
  <2>2. QED
    BY <2>1, <1>3, <1>4, <1>6
<1>9. ASSUME NEW i \in 1 .. Len(ip)
      PROVE  Item(name, ip)[Len(name) + 1 + i] = ip[i]
  <2>1. Len(name) + 1 + i \in 1 .. Len(b)
    BY <1>2, <1>4
  <2>2. QED
    BY <2>1, <1>4, <1>6
<1>10. Len(b) + 1 = Len(name) + Len(ip) + 2
  BY <1>2, <1>4
<1>11. QED
  BY <1>6, <1>7, <1>8, <1>9, <1>10

\* The last "(" of an entry is the one before the address, if that has none.
LEMMA LastOpenOfItem ==
    ASSUME NEW name \in Seq(Char), NEW ip \in Seq(Char),
           \A i \in DOMAIN ip : ip[i] # Open
    PROVE  LastOpen(Item(name, ip)) = Len(name) + 1
<1> DEFINE t == Item(name, ip)
           n == Len(name) + 1
           P(i) == /\ i = 0 \/ t[i] = Open
                   /\ \A j \in i + 1 .. Len(t) : t[j] # Open
<1>1. /\ Len(t) = Len(name) + Len(ip) + 2 /\ Len(name) \in Nat /\ Len(ip) \in Nat
      /\ t[n] = Open /\ t[Len(name) + Len(ip) + 2] = Closed
      /\ \A i \in 1 .. Len(ip) : t[n + i] = ip[i]
  <2>1. Len(name) \in Nat /\ Len(ip) \in Nat
    OBVIOUS
  <2>2. QED
    BY <2>1, ItemProperties, Zenon
<1> HIDE DEF t
<1>2. \A j \in n + 1 .. Len(t) : t[j] # Open
  <2>1. ASSUME NEW j \in n + 1 .. Len(t)
        PROVE  t[j] # Open
    <3>1. CASE j = Len(t)
      BY <1>1, <3>1, ParenthesisAssumption
    <3>2. CASE j # Len(t)
      <4>1. j - n \in 1 .. Len(ip) /\ n + (j - n) = j
        BY <1>1, <2>1, <3>2
      <4>2. t[j] = ip[j - n]
        BY <1>1, <4>1
      <4>3. QED
        BY <4>1, <4>2
    <3>3. QED
      BY <3>1, <3>2
  <2>2. QED
    BY <2>1
<1>3. n \in 0 .. Len(t) /\ P(n)
  BY <1>1, <1>2
<1>4. ASSUME NEW i \in 0 .. Len(t), P(i)
      PROVE  i = n
  <2>1. ~(i < n)
    BY <1>1, <1>4
  <2>2. ~(n < i)
    BY <1>1, <1>2, <1>4
  <2>3. QED
    BY <1>1, <2>1, <2>2
<1>5. (CHOOSE i \in 0 .. Len(t) : P(i)) = n
  BY <1>3, <1>4
<1>6. QED
  BY <1>5 DEF LastOpen, t

(***************************************************************************)
(* What addServerHandler writes into the combo box, the other handlers     *)
(* read back: any name, with or without parentheses, and any address that  *)
(* has no "(".                                                             *)
(***************************************************************************)
THEOREM EntryRoundTrip ==
    ASSUME NEW name \in Seq(Char), NEW ip \in Seq(Char),
           \A i \in DOMAIN ip : ip[i] # Open
    PROVE  NameOf(Item(name, ip)) = name /\ IpOf(Item(name, ip)) = ip
<1> DEFINE t == Item(name, ip)
<1>1. /\ t \in Seq(Char) /\ Len(t) = Len(name) + Len(ip) + 2
      /\ Len(name) \in Nat /\ Len(ip) \in Nat
      /\ \A i \in 1 .. Len(name) : t[i] = name[i]
      /\ \A i \in 1 .. Len(ip) : t[Len(name) + 1 + i] = ip[i]
  <2>1. Len(name) \in Nat /\ Len(ip) \in Nat
    OBVIOUS
  <2>2. QED
    BY <2>1, ItemProperties, Zenon
<1>2. LastOpen(t) = Len(name) + 1
  BY LastOpenOfItem
<1> HIDE DEF t
<1>3. NameOf(t) = name
  <2>1. NameOf(t) = SubSeq(t, 1, Len(name))
    BY <1>1, <1>2 DEF NameOf
  <2>2. /\ SubSeq(t, 1, Len(name)) \in Seq(Char)
        /\ Len(SubSeq(t, 1, Len(name))) = Len(name)
        /\ \A i \in 1 .. Len(name) : SubSeq(t, 1, Len(name))[i] = name[i]
    BY <1>1
  <2>3. QED
    BY <2>1, <2>2, SeqEqual
<1>4. IpOf(t) = ip
  <2> DEFINE m == Len(name) + 2
             n == Len(name) + 1 + Len(ip)
  <2>1. IpOf(t) = SubSeq(t, m, n)
    BY <1>1, <1>2 DEF IpOf
  <2>2. /\ SubSeq(t, m, n) \in Seq(Char)
        /\ Len(SubSeq(t, m, n)) = Len(ip)
        /\ \A i \in 1 .. Len(ip) : SubSeq(t, m, n)[i] = ip[i]
    BY <1>1
  <2>3. QED
    BY <2>1, <2>2, SeqEqual
<1>5. QED
  BY <1>3, <1>4 DEF t

-----------------------------------------------------------------------------
(***************************************************************************)
(* Entry i of the combo box is the text of what the user typed for it, and *)
(* the current entry is one of them.                                       *)
(***************************************************************************)
ComboInv ==
    /\ combo \in Seq(Seq(Char)) /\ entered \in Seq(Server)
    /\ Len(combo) = Len(entered)
    /\ current \in 0 .. Len(combo)
    /\ \A i \in 1 .. Len(combo) : combo[i] = Item(entered[i].name, entered[i].ip)

\* What is typed makes an entry that parses.
LEMMA TypedParses ==
    ASSUME NEW s \in Server
    PROVE  /\ Item(s.name, s.ip) \in Seq(Char)
           /\ NameOf(Item(s.name, s.ip)) = s.name
           /\ IpOf(Item(s.name, s.ip)) = s.ip
<1>1. s.name \in Seq(Char) /\ s.ip \in Seq(Char)
  BY NameAssumption, IpAssumption DEF Server
<1>2. \A i \in DOMAIN s.ip : s.ip[i] # Open
  BY IpAssumption DEF Server
<1>3. QED
  BY <1>1, <1>2, ItemProperties, EntryRoundTrip

\* A new entry comes last.
LEMMA AddServerKeepsCombo ==
    ASSUME ComboInv, NEW name \in Name, NEW ip \in Ip, AddServer(name, ip)
    PROVE  ComboInv'
<1> DEFINE s == [name |-> name, ip |-> ip]
<1>1. s \in Server /\ Item(s.name, s.ip) \in Seq(Char)
  BY TypedParses DEF Server
<1>2. /\ combo' = Append(combo, Item(s.name, s.ip))
      /\ entered' = Append(entered, s)
      /\ current' \in {1, current}
  BY DEF AddServer
<1> HIDE DEF s
<1>3. /\ combo' \in Seq(Seq(Char)) /\ Len(combo') = Len(combo) + 1
      /\ \A i \in 1 .. Len(combo) : combo'[i] = combo[i]
      /\ combo'[Len(combo) + 1] = Item(s.name, s.ip)
  BY <1>1, <1>2, AppendProperties DEF ComboInv
<1>4. /\ entered' \in Seq(Server) /\ Len(entered') = Len(entered) + 1
      /\ \A i \in 1 .. Len(entered) : entered'[i] = entered[i]
      /\ entered'[Len(entered) + 1] = s
  BY <1>1, <1>2, AppendProperties DEF ComboInv
<1>5. Len(combo) \in Nat /\ Len(combo) = Len(entered)
  BY DEF ComboInv
<1>6. ASSUME NEW i \in 1 .. Len(combo')
      PROVE  combo'[i] = Item(entered'[i].name, entered'[i].ip)
  <2>1. CASE i = Len(combo) + 1
    BY <1>3, <1>4, <1>5, <2>1
  <2>2. CASE i # Len(combo) + 1
    <3>1. i \in 1 .. Len(combo) /\ i \in 1 .. Len(entered)
      BY <1>3, <1>5, <2>2
    <3>2. combo'[i] = combo[i] /\ entered'[i] = entered[i]
      BY <1>3, <1>4, <3>1
    <3>3. combo[i] = Item(entered[i].name, entered[i].ip)
      BY <3>1 DEF ComboInv
    <3>4. QED
      BY <3>2, <3>3
  <2>3. QED
    BY <2>1, <2>2
<1>7. current' \in 0 .. Len(combo')
  <2>1. current \in 0 .. Len(combo) /\ Len(combo) \in Nat /\ Len(combo') = Len(combo) + 1
    BY <1>3 DEF ComboInv
  <2>2. current' = 1 \/ current' = current
    BY <1>2
  <2>3. QED
    BY <2>1, <2>2
<1>8. QED
  BY <1>3, <1>4, <1>5, <1>6, <1>7 DEF ComboInv

\* The current entry is removed from the combo box and from the history.
LEMMA RemoveServerKeepsCombo ==
    ASSUME ComboInv, RemoveServer
    PROVE  ComboInv'
<1>1. /\ combo \in Seq(Seq(Char)) /\ entered \in Seq(Server)
      /\ Len(combo) = Len(entered) /\ Len(combo) \in Nat
      /\ current \in 1 .. Len(combo)
      /\ combo' = RemoveAt(combo, current) /\ entered' = RemoveAt(entered, current)
      /\ current' = IF current = Len(combo) THEN current - 1 ELSE current
  BY DEF ComboInv, RemoveServer
<1>2. /\ combo' \in Seq(Seq(Char)) /\ Len(combo') = Len(combo) - 1
      /\ \A i \in 1 .. Len(combo) - 1 :
            combo'[i] = IF i < current THEN combo[i] ELSE combo[i + 1]
  BY <1>1, RemoveAtProperties
<1>3. /\ entered' \in Seq(Server) /\ Len(entered') = Len(entered) - 1
      /\ \A i \in 1 .. Len(entered) - 1 :
            entered'[i] = IF i < current THEN entered[i] ELSE entered[i + 1]
  BY <1>1, RemoveAtProperties
<1>4. ASSUME NEW i \in 1 .. Len(combo')
      PROVE  combo'[i] = Item(entered'[i].name, entered'[i].ip)
  <2> DEFINE j == IF i < current THEN i ELSE i + 1
  <2>1. j \in 1 .. Len(combo) /\ i \in 1 .. Len(combo) - 1
    BY <1>1, <1>2
  <2>2. combo'[i] = combo[j] /\ entered'[i] = entered[j]
    BY <1>1, <1>2, <1>3, <2>1
  <2> HIDE DEF j
  <2>3. combo[j] = Item(entered[j].name, entered[j].ip)
    BY <2>1 DEF ComboInv
  <2>4. QED
    BY <2>2, <2>3
<1>5. current' \in 0 .. Len(combo')
  BY <1>1, <1>2
<1>6. QED
  BY <1>1, <1>2, <1>3, <1>4, <1>5 DEF ComboInv

\* No other step touches them, but for the choice of the current entry.
LEMMA ComboStep ==
    ASSUME ComboInv, [Next]_vars
    PROVE  ComboInv'
<1>1. CASE UNCHANGED <<combo, entered, current>>
  BY <1>1 DEF ComboInv
<1>2. ASSUME NEW i \in DOMAIN combo, Select(i)
      PROVE  ComboInv'
  BY <1>2 DEF Select, ComboInv
<1>3. CASE HandlerEnds
  BY <1>1, <1>3 DEF HandlerEnds, SetUpThrows, CallThrows, Throws, Returns, StartsWatch,
                    WriteSignals, ShowsLog, servers
<1>4. QED
  BY <1>1, <1>2, <1>3, AddServerKeepsCombo, RemoveServerKeepsCombo
  DEF Next, ToggleSSL, SetLogOption, Click, DoubleClick, KeysChange, servers, vars

\* The history is that of the combo box in every state.
LEMMA ComboInvariant == Spec => []ComboInv
<1>1. Init => ComboInv
  <2> SUFFICES ASSUME Init
               PROVE  ComboInv
    OBVIOUS
  <2>1. [name |-> HostName, ip |-> HostIp] \in Server
    BY NameAssumption, IpAssumption DEF Server
  <2>2. Item(HostName, HostIp) \in Seq(Char)
    BY <2>1, TypedParses
  <2>3. QED
    BY <2>1, <2>2 DEF Init, ComboInv
<1>2. QED
  BY <1>1, ComboStep, PTL DEF Spec

(***************************************************************************)
(* A ping and a watch dial the address the user typed for the current      *)
(* entry, and a removal prunes the rows of the name typed for it, for any  *)
(* texts and any sequence of additions, selections and removals.           *)
(***************************************************************************)
THEOREM ActsOnWhatWasTyped == Spec => ActsOnEntered
<1>1. ASSUME ComboInv, current # 0
      PROVE  /\ NameOf(CurrentText) = entered[current].name
             /\ IpOf(CurrentText) = entered[current].ip
  <2>1. /\ CurrentText = Item(entered[current].name, entered[current].ip)
        /\ entered[current] \in Server
    BY <1>1 DEF ComboInv, CurrentText
  <2>2. QED
    BY <2>1, TypedParses
<1>2. ASSUME ComboInv, NEW at \in {"ping", "watch"}, Click(at), current # 0
      PROVE  ui'.server = entered[current].name /\ ui'.ip = entered[current].ip
  BY <1>1, <1>2 DEF Click
<1>3. ASSUME ComboInv, RemoveServer
      PROVE  rows' = OtherRows(entered[current].name)
  <2>1. NameOf(CurrentText) = entered[current].name
    BY <1>1, <1>3 DEF RemoveServer
  <2>2. rows' = OtherRows(NameOf(CurrentText))
    BY <1>3 DEF RemoveServer
  <2>3. QED
    BY <2>1, <2>2
<1>4. ComboInv => [ /\ \A at \in {"ping", "watch"} : Click(at) /\ current # 0 =>
                          ui'.server = entered[current].name /\ ui'.ip = entered[current].ip
                    /\ RemoveServer =>
                          rows' = OtherRows(entered[current].name)
                  ]_vars
  BY <1>2, <1>3
<1>5. QED
  BY <1>4, ComboInvariant, PTL DEF ActsOnEntered

-----------------------------------------------------------------------------
(***************************************************************************)
(* A handler that connects ends the client by an application error in      *)
(* answer to a ping, by a double click without the key files, or by a      *)
(* signal for a write; the last two only with SSL.                         *)
(***************************************************************************)
THEOREM HowTheClientEnds == Spec => WaysToEnd
<1> DEFINE Ends ==
        \/ ui.at = "ping" /\ uncaught' = "TApplicationException"
        \/ ssl /\ ui.at \in OfRow /\ uncaught' = "TSSLException" /\ ~keys
        \/ ssl /\ uncaught' = "SIGPIPE"
<1>1. ASSUME SetUpThrows, uncaught' # None
      PROVE  Ends
  BY <1>1 DEF SetUpThrows, Throws, Catches, IsA, OfRow, Connecting
<1>2. ASSUME NEW e \in Exception, CallThrows(e), uncaught' # None
      PROVE  Ends
  BY <1>2 DEF CallThrows, Connects, Throws, Catches, IsA, Connecting, Exception
<1>3. ASSUME Next, uncaught' # None
      PROVE  Ends
  <2>1. CASE uncaught' = uncaught
    BY <1>3, <2>1 DEF Next, Ready, Alive, AddServer, Select, RemoveServer, ToggleSSL,
       SetLogOption, Click, DoubleClick, KeysChange, HandlerEnds, SetUpThrows, Returns,
       StartsWatch, CallThrows, WriteSignals, Connects, ShowsLog
  <2>2. CASE WriteSignals
    BY <2>2 DEF WriteSignals
  <2>3. QED
    BY <1>1, <1>2, <1>3, <2>1, <2>2 DEF Next, Ready, AddServer, Select, RemoveServer,
       ToggleSSL, SetLogOption, Click, DoubleClick, KeysChange, HandlerEnds, Returns,
       StartsWatch, ShowsLog
<1>4. [Next]_vars => [uncaught' # None => Ends]_vars
  BY <1>3
<1>5. QED
  BY <1>4, PTL DEF Spec, WaysToEnd
-----------------------------------------------------------------------------
\* The log setting as the window keeps it: the entire log comes with "0".
SettingInv ==
    /\ setting \in [checkbox : {0, 1}, logLines : Lines]
    /\ setting.checkbox = 1 => setting.logLines = 0

\* Whatever the user leaves in the dialog makes such a setting.
LEMMA SettingInvariant == Spec => []SettingInv
<1>1. Init => SettingInv
  BY LinesAssumption DEF Init, SettingInv
<1>2. ASSUME SettingInv, [Next]_vars
      PROVE  SettingInv'
  <2>1. CASE UNCHANGED setting
    BY <1>2, <2>1 DEF SettingInv
  <2>2. ASSUME NEW d \in Edited, SetLogOption(d)
        PROVE  SettingInv'
    <3>1. setting' = DialogReturns(d) /\ d \in [checkbox : {0, 1}, text : Lines \cup {None}]
      BY <2>2 DEF SetLogOption, Edited
    <3>2. QED
      BY <3>1, LinesAssumption DEF DialogReturns, SettingInv
  <2>3. CASE HandlerEnds
    BY <2>1, <2>3 DEF HandlerEnds, SetUpThrows, CallThrows, Throws, Returns, StartsWatch,
                      WriteSignals, ShowsLog, options
  <2>4. QED
    BY <1>2, <2>1, <2>2, <2>3
    DEF Next, AddServer, Select, RemoveServer, ToggleSSL, Click, DoubleClick, KeysChange,
        options, vars
<1>3. QED
  BY <1>1, <1>2, PTL DEF Spec

(***************************************************************************)
(* Opening and closing the log dialog leaves the setting as it was, for    *)
(* any number of lines that can be typed.                                  *)
(***************************************************************************)
THEOREM LogDialogKeepsSetting == Spec => LookingChangesNothing
<1>1. ASSUME SettingInv, SetLogOption(DialogShows(setting))
      PROVE  setting' = setting
  <2>1. setting' = DialogReturns(DialogShows(setting))
    BY <1>1 DEF SetLogOption
  <2>2. CASE setting.checkbox = 1
    <3>1. DialogReturns(DialogShows(setting)) = [checkbox |-> 1, logLines |-> 0]
      BY <2>2 DEF DialogShows, DialogReturns
    <3>2. setting = [checkbox |-> 1, logLines |-> 0]
      BY <1>1, <2>2 DEF SettingInv
    <3>3. QED
      BY <2>1, <3>1, <3>2
  <2>3. CASE setting.checkbox # 1
    <3>1. DialogReturns(DialogShows(setting))
              = [checkbox |-> setting.checkbox, logLines |-> setting.logLines]
      BY <1>1, <2>3, LinesAssumption DEF DialogShows, DialogReturns, SettingInv
    <3>2. setting = [checkbox |-> setting.checkbox, logLines |-> setting.logLines]
      BY <1>1 DEF SettingInv
    <3>3. QED
      BY <2>1, <3>1, <3>2
  <2>4. QED
    BY <2>2, <2>3
<1>2. SettingInv => [SetLogOption(DialogShows(setting)) => setting' = setting]_vars
  BY <1>1
<1>3. QED
  BY <1>2, SettingInvariant, PTL DEF LookingChangesNothing

-----------------------------------------------------------------------------
(***************************************************************************)
(* The types, and the address a double click dials.                        *)
(*                                                                         *)
(* Whatever a handler works with was entered as a pair at some time: the   *)
(* address under a name in ipnamemap, that of a row, and what the handler  *)
(* that runs has read of them (KnownInv).  So when a double click dials    *)
(* another address than that of the row, both were entered for its name.   *)
(***************************************************************************)
Pair(name, ip) == [name |-> name, ip |-> ip]

KnownRow == {r \in [server : Name, ip : Ip] :
                Pair(r.server, r.ip) \in known /\ r.server \in DOMAIN ipnamemap}

UiKnown ==
    /\ ui.at \in {"ping", "watch"} /\ ui.ip # <<>> => Pair(ui.server, ui.ip) \in known
    /\ ui.at \in OfRow => /\ Pair(ui.server, ui.ip) \in known
                          /\ Pair(ui.server, ui.own) \in known

KnownInv ==
    /\ known \in SUBSET Server
    /\ entered \in Seq(known)
    /\ \A n \in DOMAIN ipnamemap : Pair(n, ipnamemap[n]) \in known
    /\ rows \in Seq(KnownRow)
    /\ UiKnown

\* What TypeOK says beyond the other parts of the invariant.
Values ==
    /\ current = 0 <=> Len(combo) = 0
    /\ ssl \in BOOLEAN /\ keys \in BOOLEAN
    /\ uncaught \in Exception \cup {"SIGPIPE", None}
    /\ ui.at \in Connecting \cup {"idle"}

WindowInv == ComboInv /\ SettingInv /\ KnownInv /\ Values

\* The names and the addresses of what is known.
LEMMA PairProperties ==
    ASSUME NEW name, NEW ip
    PROVE  /\ Pair(name, ip).name = name /\ Pair(name, ip).ip = ip
           /\ Pair(name, ip) \in Server <=> name \in Name /\ ip \in Ip
  BY DEF Pair, Server

\* The invariant gives the types, and the address of a double click.
LEMMA WindowInvImplies == WindowInv => TypeOK /\ RowDialsItsServer
<1> SUFFICES ASSUME WindowInv
             PROVE  TypeOK /\ RowDialsItsServer
  OBVIOUS
<1>1. \A n \in DOMAIN ipnamemap : n \in Name /\ ipnamemap[n] \in Ip
  BY PairProperties DEF WindowInv, KnownInv
<1>2. rows \in Seq([server : Name, ip : Ip])
  <2> DEFINE Row == [server : Name, ip : Ip]
  <2>1. KnownRow \subseteq Row
    BY DEF KnownRow
  <2> HIDE DEF KnownRow, Row
  <2>2. rows \in Seq(KnownRow)
    BY DEF WindowInv, KnownInv
  <2>3. rows \in Seq(Row)
    BY <2>1, <2>2
  <2>4. QED
    BY <2>3 DEF Row
<1>3. combo = <<>> <=> Len(combo) = 0
  BY DEF WindowInv, ComboInv
<1>4. TypeOK
  BY <1>1, <1>2, <1>3
  DEF WindowInv, ComboInv, SettingInv, KnownInv, Values, TypeOK
<1>5. ASSUME ui.at \in OfRow, ui.ip # ui.own
      PROVE  \E s, t \in known : s.name = ui.server /\ t.name = ui.server /\ s.ip # t.ip
  <2>1. Pair(ui.server, ui.ip) \in known /\ Pair(ui.server, ui.own) \in known
    BY <1>5 DEF WindowInv, KnownInv, UiKnown
  <2>2. QED
    BY <1>5, <2>1, PairProperties
<1>6. QED
  BY <1>4, <1>5 DEF RowDialsItsServer

\* The empty combo box has no server to offer.
LEMMA NoEntryNoServer == IpOf(<<>>) = <<>>
<1> DEFINE P(i) == (i = 0 \/ <<>>[i] = Open) /\ \A j \in i + 1 .. Len(<<>>) : <<>>[j] # Open
<1>1. Len(<<>>) = 0
  OBVIOUS
<1>2. P(0) /\ 0 \in 0 .. Len(<<>>) /\ \A i \in 0 .. Len(<<>>) : i = 0
  BY <1>1
<1>3. (CHOOSE i \in 0 .. Len(<<>>) : P(i)) = 0
  BY <1>2
<1>4. LastOpen(<<>>) = 0
  BY <1>3 DEF LastOpen
<1>5. IpOf(<<>>) = SubSeq(<<>>, 1, 0 - 1)
  BY <1>1, <1>4 DEF IpOf
<1>6. QED
  BY <1>5

\* The rows that are left are some of the rows.
LEMMA OtherRowsKnown ==
    ASSUME NEW S, rows \in Seq(S), NEW name
    PROVE  OtherRows(name) \in Seq(S)
<1>1. OtherRows(name) \in Seq(S \cap [server : Name \ {name}, ip : Ip])
  BY OnlyType DEF OtherRows
<1>2. QED
  BY <1>1

-----------------------------------------------------------------------------
\* A new entry is known from now on, and so is what was.
LEMMA AddServerKeepsKnown ==
    ASSUME WindowInv, NEW name \in Name, NEW ip \in Ip, AddServer(name, ip)
    PROVE  KnownInv' /\ Values'
<1>1. /\ known' = known \cup {Pair(name, ip)} /\ entered' = Append(entered, Pair(name, ip))
      /\ ipnamemap' = ipnamemap /\ rows' = rows /\ ui' = ui
  BY DEF AddServer, watches, Pair
<1>2. known' \in SUBSET Server
  <2>1. Pair(name, ip) \in Server
    BY PairProperties
  <2>2. QED
    BY <1>1, <2>1 DEF WindowInv, KnownInv
<1>3. entered' \in Seq(known')
  <2>1. entered \in Seq(known')
    BY <1>1 DEF WindowInv, KnownInv
  <2>2. QED
    BY <1>1, <2>1
<1>4. rows' \in Seq(KnownRow')
  <2>1. KnownRow \subseteq KnownRow'
    BY <1>1 DEF KnownRow
  <2> HIDE DEF KnownRow
  <2>2. QED
    BY <1>1, <2>1 DEF WindowInv, KnownInv
<1>5. /\ \A n \in DOMAIN ipnamemap' : Pair(n, ipnamemap'[n]) \in known'
      /\ UiKnown'
  BY <1>1 DEF WindowInv, KnownInv, UiKnown
<1>6. Values'
  <2>1. Len(combo) \in Nat /\ Len(combo') = Len(combo) + 1
    <3>1. Item(name, ip) \in Seq(Char)
      BY NameAssumption, IpAssumption, ItemProperties
    <3>2. combo' = Append(combo, Item(name, ip))
      BY DEF AddServer
    <3>3. QED
      BY <3>1, <3>2, AppendProperties DEF WindowInv, ComboInv
  <2>2. current' # 0
    BY DEF AddServer
  <2>3. QED
    BY <2>1, <2>2 DEF WindowInv, Values, AddServer, Ready, options
<1>7. QED
  BY <1>2, <1>3, <1>4, <1>5, <1>6 DEF KnownInv

\* What was known stays known, also when its entry and its rows are gone.
LEMMA RemoveServerKeepsKnown ==
    ASSUME WindowInv, RemoveServer
    PROVE  KnownInv' /\ Values'
<1>1. /\ known' = known /\ ipnamemap' = ipnamemap /\ ui' = ui
      /\ entered' = RemoveAt(entered, current)
      /\ rows' = OtherRows(NameOf(CurrentText))
  BY DEF RemoveServer
<1>2. current \in 1 .. Len(entered) /\ current \in 1 .. Len(combo)
  BY DEF RemoveServer, WindowInv, ComboInv
<1>3. entered' \in Seq(known')
  BY <1>1, <1>2, RemoveAtProperties DEF WindowInv, KnownInv
<1>4. rows' \in Seq(KnownRow')
  <2>1. KnownRow' = KnownRow
    BY <1>1 DEF KnownRow
  <2> HIDE DEF KnownRow
  <2>2. QED
    BY <1>1, <2>1, OtherRowsKnown DEF WindowInv, KnownInv
<1>5. /\ known' \in SUBSET Server
      /\ \A n \in DOMAIN ipnamemap' : Pair(n, ipnamemap'[n]) \in known'
      /\ UiKnown'
  BY <1>1 DEF WindowInv, KnownInv, UiKnown
<1>6. Values'
  <2>1. Len(combo) \in Nat /\ Len(combo') = Len(combo) - 1
    BY <1>2, RemoveAtProperties DEF RemoveServer, WindowInv, ComboInv
  <2>2. current' = IF current = Len(combo) THEN current - 1 ELSE current
    BY DEF RemoveServer
  <2>3. current' = 0 <=> Len(combo') = 0
    BY <1>2, <2>1, <2>2
  <2>4. QED
    BY <2>3 DEF WindowInv, Values, RemoveServer, Ready, options
<1>7. QED
  BY <1>3, <1>4, <1>5, <1>6 DEF KnownInv

\* A click on ping or Start Watch reads the current entry, which was entered.
LEMMA ClickKeepsKnown ==
    ASSUME WindowInv, NEW at \in {"ping", "watch"}, Click(at)
    PROVE  KnownInv' /\ Values'
<1>1. UNCHANGED <<combo, current, entered, known, ipnamemap, rows, ssl, keys, uncaught>>
  BY DEF Click, Ready, servers, watches, options
<1>2. ui' = [at |-> at, server |-> NameOf(CurrentText), ip |-> IpOf(CurrentText),
             own |-> <<>>]
  BY DEF Click
<1>3. UiKnown'
  <2>1. CASE current = 0
    BY <1>2, <2>1, NoEntryNoServer DEF UiKnown, OfRow, CurrentText
  <2>2. CASE current # 0
    <3>1. current \in 1 .. Len(combo)
      BY <2>2 DEF WindowInv, ComboInv
    <3>2. /\ CurrentText = Item(entered[current].name, entered[current].ip)
          /\ entered[current] \in Server /\ entered[current] \in known
      BY <2>2, <3>1 DEF WindowInv, ComboInv, KnownInv, CurrentText
    <3>3. ui'.server = entered[current].name /\ ui'.ip = entered[current].ip
      BY <1>2, <3>2, TypedParses
    <3>4. Pair(ui'.server, ui'.ip) = entered[current]
      BY <3>2, <3>3 DEF Pair, Server
    <3>5. QED
      BY <1>1, <1>2, <3>2, <3>4 DEF UiKnown, OfRow
  <2>3. QED
    BY <2>1, <2>2
<1>4. KnownRow' = KnownRow
  BY <1>1 DEF KnownRow
<1> HIDE DEF KnownRow
<1>5. KnownInv'
  BY <1>1, <1>3, <1>4 DEF WindowInv, KnownInv
<1>6. Values'
  BY <1>1, <1>2 DEF WindowInv, Values, Connecting
<1>7. QED
  BY <1>5, <1>6

\* A double click reads a row and the address ipnamemap has for its name.
LEMMA DoubleClickKeepsKnown ==
    ASSUME WindowInv, NEW i \in DOMAIN rows, NEW at \in OfRow, DoubleClick(i, at)
    PROVE  KnownInv' /\ Values'
<1>1. UNCHANGED <<combo, current, entered, known, ipnamemap, rows, ssl, keys, uncaught>>
  BY DEF DoubleClick, Ready, servers, watches, options
<1>2. ui' = [at |-> at, server |-> rows[i].server, ip |-> ipnamemap[rows[i].server],
             own |-> rows[i].ip]
  BY DEF DoubleClick
<1>3. Pair(rows[i].server, rows[i].ip) \in known /\ rows[i].server \in DOMAIN ipnamemap
  <2>1. rows[i] \in KnownRow
    <3> HIDE DEF KnownRow
    <3>1. QED
      BY DEF WindowInv, KnownInv
  <2>2. QED
    BY <2>1 DEF KnownRow
<1>4. Pair(rows[i].server, ipnamemap[rows[i].server]) \in known
  BY <1>3 DEF WindowInv, KnownInv
<1>5. UiKnown'
  BY <1>1, <1>2, <1>3, <1>4 DEF UiKnown, OfRow
<1>6. KnownRow' = KnownRow
  BY <1>1 DEF KnownRow
<1> HIDE DEF KnownRow
<1>7. KnownInv'
  BY <1>1, <1>5, <1>6 DEF WindowInv, KnownInv
<1>8. Values'
  BY <1>1, <1>2 DEF WindowInv, Values, Connecting
<1>9. QED
  BY <1>7, <1>8

\* A watch that starts: its name gets an address unless it has one, and its
\* row is of the server the handler has dialled.
LEMMA StartsWatchKeepsKnown ==
    ASSUME WindowInv, StartsWatch
    PROVE  KnownInv' /\ Values'
<1>1. /\ UNCHANGED <<combo, current, entered, known, ssl, keys, uncaught>>
      /\ ui' = Idle /\ ui.at = "watch" /\ ui.ip # <<>>
  BY DEF StartsWatch, Connects, Finished, servers, options
<1>2. Pair(ui.server, ui.ip) \in known
  BY <1>1 DEF WindowInv, KnownInv, UiKnown
<1>3. /\ DOMAIN ipnamemap' = DOMAIN ipnamemap \cup {ui.server}
      /\ \A n \in DOMAIN ipnamemap : ipnamemap'[n] = ipnamemap[n]
      /\ ui.server \notin DOMAIN ipnamemap => ipnamemap'[ui.server] = ui.ip
  BY DEF StartsWatch, RememberIp
<1>4. \A n \in DOMAIN ipnamemap' : Pair(n, ipnamemap'[n]) \in known'
  BY <1>1, <1>2, <1>3 DEF WindowInv, KnownInv
<1>5. rows' \in Seq(KnownRow')
  <2>1. KnownRow \subseteq KnownRow'
    BY <1>1, <1>3 DEF KnownRow
  <2>2. [server |-> ui.server, ip |-> ui.ip] \in KnownRow'
    <3>1. ui.server \in Name /\ ui.ip \in Ip
      BY <1>2, PairProperties DEF WindowInv, KnownInv
    <3>2. QED
      BY <1>1, <1>2, <1>3, <3>1 DEF KnownRow
  <2>3. rows' = rows \/ rows' = Append(rows, [server |-> ui.server, ip |-> ui.ip])
    BY DEF StartsWatch
  <2> HIDE DEF KnownRow
  <2>4. rows \in Seq(KnownRow')
    BY <2>1 DEF WindowInv, KnownInv
  <2>5. QED
    BY <2>2, <2>3, <2>4
<1>6. UiKnown'
  BY <1>1 DEF UiKnown, Idle, OfRow
<1>7. KnownInv'
  BY <1>1, <1>4, <1>5, <1>6 DEF WindowInv, KnownInv
<1>8. Values'
  BY <1>1 DEF WindowInv, Values, Idle
<1>9. QED
  BY <1>7, <1>8

\* The other steps leave what is known alone; a handler that ends forgets.
LEMMA OthersKeepKnown ==
    ASSUME WindowInv, UNCHANGED <<combo, entered, known, ipnamemap, rows>>,
           ui' = ui \/ ui' = Idle
    PROVE  KnownInv'
<1>1. UiKnown'
  BY DEF WindowInv, KnownInv, UiKnown, Idle, OfRow
<1>2. KnownRow' = KnownRow
  BY DEF KnownRow
<1> HIDE DEF KnownRow
<1>3. QED
  BY <1>1, <1>2 DEF WindowInv, KnownInv

\* The invariant holds at the start.
LEMMA WindowStart == Init => KnownInv /\ Values
<1> SUFFICES ASSUME Init
             PROVE  KnownInv /\ Values
  OBVIOUS
<1>1. Pair(HostName, HostIp) \in Server
  BY NameAssumption, IpAssumption, PairProperties
<1>2. /\ known = {Pair(HostName, HostIp)} /\ entered = <<Pair(HostName, HostIp)>>
      /\ ipnamemap = <<>> /\ rows = <<>> /\ ui = Idle
  BY DEF Init, Pair
<1>3. rows \in Seq(KnownRow)
  BY <1>2
<1>4. \A n \in DOMAIN ipnamemap : Pair(n, ipnamemap[n]) \in known
  BY <1>2
<1>5. UiKnown
  BY <1>2 DEF UiKnown, Idle, OfRow
<1>6. Values
  BY DEF Init, Values, Idle
<1>7. QED
  BY <1>1, <1>2, <1>3, <1>4, <1>5, <1>6 DEF KnownInv

\* Every step keeps it.
LEMMA WindowStep ==
    ASSUME WindowInv, [Next]_vars
    PROVE  KnownInv' /\ Values'
<1>1. CASE UNCHANGED vars
  BY <1>1, OthersKeepKnown
  DEF WindowInv, Values, vars, servers, watches, options
<1>2. ASSUME NEW i \in DOMAIN combo, Select(i)
      PROVE  KnownInv' /\ Values'
  <2>1. KnownInv'
    BY <1>2, OthersKeepKnown DEF Select, watches
  <2>2. i \in 1 .. Len(combo) /\ Len(combo) \in Nat
    BY DEF WindowInv, ComboInv
  <2>3. Values'
    BY <1>2, <2>2 DEF Select, WindowInv, Values, Ready, options
  <2>4. QED
    BY <2>1, <2>3
<1>3. CASE ToggleSSL \/ KeysChange \/ \E d \in Edited : SetLogOption(d)
  <2>1. KnownInv'
    BY <1>3, OthersKeepKnown
    DEF ToggleSSL, KeysChange, SetLogOption, servers, watches
  <2>2. Values'
    BY <1>3
    DEF ToggleSSL, KeysChange, SetLogOption, WindowInv, Values, Ready, servers, options
  <2>3. QED
    BY <2>1, <2>2
<1>4. CASE SetUpThrows \/ (\E e \in Exception : CallThrows(e)) \/ Returns
             \/ WriteSignals \/ \E t \in File : ShowsLog(t)
  <2>1. /\ UNCHANGED <<servers, watches, options>> /\ ui' = Idle
        /\ uncaught' \in Exception \cup {"SIGPIPE", None, uncaught}
    BY <1>4 DEF SetUpThrows, CallThrows, WriteSignals, Throws, Returns, ShowsLog, Finished,
                Exception
  <2>2. KnownInv'
    BY <2>1, OthersKeepKnown DEF servers, watches
  <2>3. Values'
    BY <2>1 DEF WindowInv, Values, servers, options, Idle
  <2>4. QED
    BY <2>2, <2>3
<1>5. QED
  BY <1>1, <1>2, <1>3, <1>4, AddServerKeepsKnown, RemoveServerKeepsKnown,
     ClickKeepsKnown, DoubleClickKeepsKnown, StartsWatchKeepsKnown
  DEF Next, HandlerEnds

\* The invariant is one of the specification.
LEMMA WindowInvariant == Spec => []WindowInv
<1>1. Init => KnownInv /\ Values
  BY WindowStart
<1>2. ComboInv /\ SettingInv /\ (KnownInv /\ Values) /\ [Next]_vars => (KnownInv /\ Values)'
  BY WindowStep DEF WindowInv
<1>3. ComboInv /\ SettingInv /\ KnownInv /\ Values => WindowInv
  BY DEF WindowInv
<1>4. QED
  BY <1>1, <1>2, <1>3, ComboInvariant, SettingInvariant, PTL DEF Spec

\* The variables keep their values, and the current entry is one of the combo
\* box, whatever is added, removed and chosen.
THEOREM WindowTypes == Spec => []TypeOK
  BY WindowInvariant, WindowInvImplies, PTL

(***************************************************************************)
(* A double click dials the address its row was started with, unless two   *)
(* addresses were entered under the name, for any names and addresses and  *)
(* any number of entries and rows.                                         *)
(***************************************************************************)
THEOREM RowsDialTheirServers == Spec => []RowDialsItsServer
  BY WindowInvariant, WindowInvImplies, PTL

-----------------------------------------------------------------------------
(***************************************************************************)
(* The log that is shown.  It is the reading of a file with the setting of *)
(* now: every step that changes the setting takes the log away, because a  *)
(* handler that starts shows none.                                         *)
(***************************************************************************)
ShownInv ==
    shown # None =>
        \E t \in File :
            shown = [file |-> t, text |-> GetLog(t, setting.checkbox, setting.logLines)]

LEMMA ShownStep ==
    ASSUME ShownInv, [Next]_vars
    PROVE  ShownInv'
<1>1. CASE UNCHANGED vars
  BY <1>1 DEF ShownInv, vars, options
<1>2. ASSUME NEW t \in File, ShowsLog(t)
      PROVE  ShownInv'
  BY <1>2 DEF ShownInv, ShowsLog, options
<1>3. CASE KeysChange
  BY <1>3 DEF ShownInv, KeysChange
<1>4. CASE SetUpThrows \/ Returns \/ StartsWatch \/ WriteSignals
             \/ \E e \in Exception : CallThrows(e)
  BY <1>4 DEF ShownInv, SetUpThrows, Returns, StartsWatch, WriteSignals, CallThrows,
              Throws, Finished
<1>5. CASE Ready
  BY <1>5 DEF ShownInv, Ready
<1>6. QED
  BY <1>1, <1>2, <1>3, <1>4, <1>5
  DEF Next, HandlerEnds, AddServer, Select, RemoveServer, ToggleSSL, SetLogOption, Click,
      DoubleClick

\* What getLog shows of a text is complete, by the theorems about its loop.
LEMMA ShownIsComplete == ShownInv /\ SettingInv => LogIsComplete
<1> SUFFICES ASSUME ShownInv, SettingInv, shown # None
             PROVE  LogIsComplete
  BY DEF LogIsComplete
<1>1. PICK t \in File :
          shown = [file |-> t, text |-> GetLog(t, setting.checkbox, setting.logLines)]
  BY DEF ShownInv
<1> DEFINE output == Output(t, setting.checkbox, setting.logLines)
<1>2. shown.file = t /\ shown.text = TotalBuf[output]
  BY <1>1 DEF GetLog
<1>3. output \in Seq(Byte)
  <2>1. setting.logLines \in Nat \cup {Refused} /\ t \in Seq(Byte)
    BY LinesAssumption, FileAssumption DEF SettingInv
  <2>2. QED
    BY <2>1, OutputType
<1> HIDE DEF output
<1>4. Positions(output, Nul) = {} => Only(TotalBuf[output], Byte) = output
  BY <1>3, ReadingIsComplete
<1>5. Positions(output, Nul) = {} /\ LinesFit(output) => TotalBuf[output] = Separated(output)
  BY <1>3, LinesKeepTheirEnds
<1>6. QED
  BY <1>2, <1>4, <1>5 DEF LogIsComplete, output

(***************************************************************************)
(* The log a double click shows has every byte of what the command wrote,  *)
(* in order and once, and a separator at the end of each line that fits,   *)
(* for any files, any settings and any size of getLog's buffer, if the     *)
(* output has no NUL.                                                      *)
(***************************************************************************)
THEOREM ShownLogIsComplete == Spec => []LogIsComplete
<1>1. Init => ShownInv
  BY DEF Init, ShownInv
<1>2. ShownInv /\ [Next]_vars => ShownInv'
  BY ShownStep
<1>3. Spec => []ShownInv
  BY <1>1, <1>2, PTL DEF Spec
<1>4. QED
  BY <1>3, SettingInvariant, ShownIsComplete, PTL
=============================================================================
