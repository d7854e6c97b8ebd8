----------------------------- MODULE WireLayout -----------------------------
(***************************************************************************)
(* How the tables of the protocols write down a message: the widths of its *)
(* fields in the order in which they are described, which is the order on  *)
(* the wire, composites replaced by their members and constants left out.  *)
(***************************************************************************)
EXTENDS Integers, Sequences, FiniteSetsExt, TLC

(* tc::padding<n>: n bytes that belong to no field.                        *)
Pad(n) == -n

Width(field) == IF field < 0 THEN -field ELSE field

(* tc::encoded_sizeof of described members: there is nothing in between.   *)
SizeOf(fields) == MapThenSumSet(LAMBDA i : Width(fields[i]), DOMAIN fields)

(* The fields that are not padding: what the member is called that the     *)
(* codec reads or writes there, and where that is.                         *)
Fields(names, widths) ==
    {[name |-> names[i], offset |-> SizeOf(SubSeq(widths, 1, i - 1)), width |-> widths[i]] :
        i \in {i \in DOMAIN widths : widths[i] > 0}}

Group(size, fields) ==
    [header |-> size.header, modulus |-> size.modulus, item |-> SizeOf(fields),
     fields |-> fields]

Message(name, fields, groups) ==
    [name |-> name, fields |-> fields, root |-> SizeOf(fields), groups |-> groups]

(* A message without repeating groups.                                     *)
Flat(name, fields) == Message(name, fields, << >>)

(* The alternatives of a variant, each with its tc::type_id.               *)
Variant(alternatives, id) == {[id |-> id[m.name]] @@ m : m \in alternatives}

(* The member names of a message and of the items of its groups, as they   *)
(* are described.                                                          *)
MembersAndGroups(names, groups) == [fields |-> names, groups |-> groups]
Members(names) == MembersAndGroups(names, << >>)
=============================================================================
