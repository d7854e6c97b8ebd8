---------------------------- MODULE WireVersions ----------------------------
(***************************************************************************)
(* WireMessage with the protocols of this library: every message of every  *)
(* version, read by the decoder of its own version and by that of the      *)
(* other one, which has the same template id and does not look at the      *)
(* schema version in the header; and the messages of EOBI that end in a    *)
(* repeating group as Eurex sends them, with any number of entries.        *)
(***************************************************************************)
EXTENDS WireMessage, WireLayout, SequencesExt

CONSTANT Entries    \* numbers of entries of a repeating group of EOBI

ASSUME EntriesAssumption == Entries \subseteq Nat

Itch  == INSTANCE ItchV5_0
Eobi0 == INSTANCE EobiV13_0
Eobi1 == INSTANCE EobiV13_1
Cme9  == INSTANCE CmeV9
Cme13 == INSTANCE CmeV13

ItchDescribe  == INSTANCE ItchV5_0Describe
Eobi0Describe == INSTANCE EobiV13_0Describe
Eobi1Describe == INSTANCE EobiV13_1Describe
Cme9Describe  == INSTANCE CmeV9Describe
Cme13Describe == INSTANCE CmeV13Describe

Version(v, messages) == {[version |-> v] @@ m : m \in messages}

(* s with its last k elements repeated n times.                            *)
RepeatLast(s, k, n) ==
    SubSeq(s, 1, Len(s) - k) \o FlattenSeq([i \in 1 .. n |-> SubSeq(s, Len(s) - k + 1, Len(s))])

(* The messages of EOBI with a repeating group as Eurex sends them.        *)
FromEurex(messages, repeated) ==
    {LET k == Len(repeated[m.name])
         fields == RepeatLast(m.fields, k, n)
     IN  [m EXCEPT !.fields = fields, !.root = SizeOf(fields)] @@ [entry |-> k, entries |-> n] :
        m \in {m \in messages : m.name \in DOMAIN repeated}, n \in Entries}

AllLayouts ==
    [itch      |-> Version("itch", Itch!messages),
     eobi13_0  |-> Version("eobi13_0", Eobi0!messages),
     eobi13_1  |-> Version("eobi13_1", Eobi1!messages),
     eurex13_0 |-> FromEurex(Version("eobi13_0", Eobi0!messages), Eobi0!repeated),
     eurex13_1 |-> FromEurex(Version("eobi13_1", Eobi1!messages), Eobi1!repeated),
     cme9      |-> Version("cme9", Cme9!messages),
     cme13     |-> Version("cme13", Cme13!messages)]

AllReaders ==
    [itch      |-> {"itch"},
     eobi13_0  |-> {"eobi13_0", "eobi13_1"},
     eobi13_1  |-> {"eobi13_0", "eobi13_1"},
     eurex13_0 |-> {"eobi13_0"},
     eurex13_1 |-> {"eobi13_1"},
     cme9      |-> {"cme9", "cme13"},
     cme13     |-> {"cme9", "cme13"}]

AllMembers ==
    [itch |-> ItchDescribe!members, eobi13_0 |-> Eobi0Describe!members,
     eobi13_1 |-> Eobi1Describe!members, cme9 |-> Cme9Describe!members,
     cme13 |-> Cme13Describe!members]

Repeating == "entries" \in DOMAIN sent

(* Which member is where in the fixed part and in an item of a group.      *)
FieldsOf(l) ==
    LET names == AllMembers[l.version][l.name].fields
    IN  Fields(IF "entries" \in DOMAIN l THEN RepeatLast(names, l.entry, l.entries) ELSE names,
               l.fields)
ItemFieldsOf(l, k) ==
    Fields(AllMembers[l.version][l.name].groups[k], l.groups[k].fields)

(* The instrument definitions, three of CME's and one of EOBI's, whose     *)
(* fixed part has more fields at its end in the newer version.             *)
Regrown == {"MDInstrumentDefinitionFuture54", "MDInstrumentDefinitionOption55",
            "MDInstrumentDefinitionSpread56", "AddComplexInstrument"}

(* What the two versions of a protocol have in common: a template that     *)
(* both have is the same message and has the same sizes, or is regrown.    *)
ASSUME SharedAssumption ==
    \A v \in DOMAIN Layouts : \A r \in Readers[v] :
        \A m \in Layouts[v], l \in Layouts[r] :
            m.id = l.id /\ "entries" \notin DOMAIN m =>
                /\ l.name = m.name
                /\ SameSizes(l, m) \/ (m.name \in Regrown /\ m.version # r)

(* m is the message l, with the last m.entry of its fields, which are the  *)
(* entry of the group, m.entries times.                                    *)
Repeats(m, l) ==
    /\ m.version = l.version /\ m.name = l.name
    /\ m.groups = << >> /\ l.groups = << >>
    /\ "entries" \notin DOMAIN l
    /\ l.fields \in Seq(Int \ {0})
    /\ LET names == AllMembers[l.version][l.name].fields
       IN  names \in Seq(STRING) /\ Len(names) = Len(l.fields)
    /\ m.entry \in 1 .. Len(l.fields)
    /\ m.entries \in Nat
    /\ m.fields = RepeatLast(l.fields, m.entry, m.entries)
    /\ m.root = SizeOf(m.fields) /\ l.root = SizeOf(l.fields)

(* The reader of a message that Eurex repeats has that message with one    *)
(* entry, described with a member for every width.                         *)
ASSUME RepeatedAssumption ==
    \A v \in DOMAIN Layouts : \A r \in Readers[v] : \A m \in Layouts[v] :
        "entries" \in DOMAIN m =>
            /\ \E l \in Layouts[r] : l.id = m.id
            /\ \A l \in Layouts[r] : l.id = m.id => Repeats(m, l)
-----------------------------------------------------------------------------
(* A decoder understands the messages of its own version and, of the       *)
(* templates it shares with it, those of the other version: it reaches the *)
(* right alternative and finds every group and item and nothing else. Only *)
(* the regrown ones of the other version are lost, as it looks for their   *)
(* first group at the wrong place.                                         *)
OtherVersionDecodes ==
    /\ ~Repeating
    /\ sent.id \in {l.id : l \in Layouts[reader]}
    /\ sent.name \in Regrown => sent.version = reader
    /\ Countable
    /\ end = EncodedSize
    => /\ pc \notin {"thrown", "outside"}
       /\ pc = "decoded" => layout.name = sent.name /\ found = counts /\ cursor = end

(* And it gives every value to the member it was taken from: what two      *)
(* versions disagree on is only which bytes, of the older one's padding    *)
(* and of what follows its fixed part, the newer one uses for new members. *)
FieldsWhereWritten ==
    LET agree(a, b) == a \subseteq b \/ b \subseteq a
    IN  pc = "decoded" /\ ~Repeating =>
            /\ agree(FieldsOf(sent), FieldsOf(layout))
            /\ \A k \in DOMAIN sent.groups :
                   agree(ItemFieldsOf(sent, k), ItemFieldsOf(layout, k))

(* Of a group that Eurex repeats the decoder gives its caller the first    *)
(* entry, every member of it and of what precedes it where it was written; *)
(* it leaves the cursor behind that entry, whatever follows, and it        *)
(* refuses a message whose group is empty instead of reading on.           *)
FirstEntryDecodes ==
    Repeating /\ end = EncodedSize =>
        /\ pc = "thrown" => sent.entries = 0
        /\ pc = "decoded" => /\ sent.entries > 0
                             /\ cursor = layout.root
                             /\ FieldsOf(layout) \subseteq FieldsOf(sent)
=============================================================================
