------------------------------ MODULE Objects ------------------------------
(***************************************************************************)
(* The objects of iotronic/objects: a copy of a row plus the set of its    *)
(* fields that were assigned since it was read. save() writes those fields *)
(* and no other; the set travels with the object over RPC.                 *)
(*                                                                         *)
(* A row is a function from columns to values. An object may lack fields   *)
(* (one built from a request body has only those of the body).             *)
(***************************************************************************)

(* What f says, and where it says nothing what g says. *)
Over(f, g) ==
  [x \in DOMAIN f \cup DOMAIN g |-> IF x \in DOMAIN f THEN f[x] ELSE g[x]]

(* A row in which a column, that it may have lacked, has a value. *)
With(row, c, v) == [x \in DOMAIN row \cup {c} |-> IF x = c THEN v ELSE row[x]]

(* An object: what it holds and what was assigned. *)
Object(vals, changed) == [vals |-> vals, changed |-> changed]

(* The property setter of a field. *)
SetField(o, f, v) == Object(With(o.vals, f, v), o.changed \cup {f})

(* The setter of a value that the type of the field does not take: it raises *)
(* after the mark is set, and the controllers go on with the next field.    *)
RefuseField(o, f) == Object(o.vals, o.changed \cup {f})

(* update(): every key through the setter. *)
Update(o, values) ==
  Object(Over(values, o.vals), o.changed \cup DOMAIN values)

(* __init__ with keyword arguments: nothing but an update. *)
NewObject(values) == Update(Object(<<>>, {}), values)

ResetChanges(o) == Object(o.vals, {})

(* Mutant: the marks of the setters stay. *)
FromDbObjectMarked(row) == NewObject(row)

(* _from_db_object: assign every field, then forget the assignments. *)
FromDbObject(row) == ResetChanges(NewObject(row))

(* obj_get_changes *)
Changes(o) == [f \in o.changed |-> o.vals[f]]

(* obj_to_primitive: the data, and the changes if there are any. *)
ToPrimitive(o) == [data |-> o.vals, changes |-> o.changed]

(* Mutant: the marks of the setters stay. *)
FromPrimitiveMarked(m) == NewObject(m.data)

(* _obj_from_primitive: the setters mark every field, so the set of changes *)
(* is replaced by the one in the message.                                   *)
FromPrimitive(m) ==
  LET o == NewObject(m.data)
  IN  Object(o.vals, m.changes \cap DOMAIN m.data)

(* refresh(): fields that differ from the row go through the setter. *)
Refresh(o, row) ==
  Update(o, [f \in {g \in DOMAIN o.vals \cap DOMAIN row : o.vals[g] # row[g]}
               |-> row[f]])

(* What save() leaves of a row: the changes over what is there now. *)
Saved(row, o) == Over(Changes(o), row)
=============================================================================
