--------------------------- MODULE Records_proofs ---------------------------
(***************************************************************************)
(* What was assigned to an object is written, and nothing else: IInv is an *)
(* inductive invariant of Records for every class, and any holders, rows,  *)
(* values and calls.                                                       *)
(*                                                                         *)
(* The two properties need each other's converse: a field is marked as     *)
(* changed if it was assigned (NothingForgotten), and only if it was       *)
(* assigned or refused (NothingElse), so that a save writes what intent    *)
(* says. What an object is (Shapes) tells which of them have a row yet.    *)
(***************************************************************************)
EXTENDS Records, SequenceTheorems, TLAPS

(* The fields of a class, and what is in them. *)
Fields == {"id"} \cup Columns
Data   == Nat \cup Uuids \cup Values

(* Objects with some of a set of fields. *)
ObjectsOf(fields) ==
  {o \in [vals : UNION {[S -> Data] : S \in SUBSET fields}, changed : SUBSET fields] :
     o.changed \subseteq DOMAIN o.vals}

RowTypes ==
  /\ class \in Classes
  /\ rows \in Seq([Columns -> Data] \cup {NULL})
  /\ intent \in Seq([Columns -> Data \cup {NULL}] \cup {NULL})
  /\ Len(intent) = Len(rows)
  /\ \A i \in Live : intent[i] \in [Columns -> Data \cup {NULL}]

ObjectTypes ==
  /\ obj \in [Holders -> ObjectsOf(Fields) \cup {NULL}]
  /\ own \in [Holders -> SUBSET Fields]
  /\ refused \in [Holders -> SUBSET Fields]

(* An object with an id has all columns. One without was never read: it was *)
(* made with all columns, or all but the uuid, all of them to be written.   *)
WellMade(o) ==
  IF "id" \in DOMAIN o.vals
  THEN DOMAIN o.vals = Fields
  ELSE /\ o.changed = DOMAIN o.vals
       /\ Columns \ {"uuid"} \subseteq DOMAIN o.vals

Shapes == \A h \in Holders : obj[h] # NULL => WellMade(obj[h])

(* A field is marked as changed only if it was assigned or refused. *)
NothingElse ==
  \A h \in Holders : obj[h] # NULL => obj[h].changed \subseteq own[h] \cup refused[h]

RowInv    == RowTypes /\ AssignmentsSurvive
ObjectInv == ObjectTypes /\ Shapes /\ NothingForgotten /\ NothingElse
IInv      == RowInv /\ ObjectInv

(* No table has a column called id, and what the setters set are columns.  *)
LEMMA ClassFacts ==
  ASSUME class \in Classes
  PROVE  /\ "id" \notin Columns /\ "data" \in Columns
         /\ class.sets \subseteq Columns
<1>. DEFINE IsClass(k) == /\ "id" \notin k.table.columns /\ "data" \in k.table.columns
                          /\ k.sets \subseteq k.table.columns
<1>. QED BY DEF Classes, Columns, Class, Table, BoardTable, NamedTable, WebserviceTable, PortTable,
     RequestTable, ResultTable, InjectionPluginTable, ExposedServiceTable, EnabledWebserviceTable,
     LocationTable, SessionWPTable, HostTable

(* The parts of an object.                                                 *)
LEMMA ObjectFields ==
  ASSUME NEW fields, NEW vals, NEW changed, DOMAIN vals \subseteq fields,
         vals \in [DOMAIN vals -> Data], changed \subseteq DOMAIN vals
  PROVE  /\ Object(vals, changed) \in ObjectsOf(fields)
         /\ Object(vals, changed).vals = vals /\ Object(vals, changed).changed = changed
BY DEF Object, ObjectsOf

(* Its vals are of its fields, and what changed is among them.             *)
LEMMA FieldsOfObject ==
  ASSUME NEW fields, NEW o \in ObjectsOf(fields)
  PROVE  /\ o = Object(o.vals, o.changed)
         /\ DOMAIN o.vals \subseteq fields
         /\ o.vals \in [DOMAIN o.vals -> Data] 
         /\ o.changed \subseteq DOMAIN o.vals
BY DEF Object, ObjectsOf

(* An object made from values has them, all marked as changed.             *)
LEMMA NewObjectIs ==
  ASSUME NEW S, NEW D, NEW values \in [S -> D]
  PROVE  NewObject(values) = Object(values, S)
<1>1. DOMAIN <<>> = {}
  OBVIOUS
<1>2. Over(values, <<>>) = values
  BY <1>1 DEF Over
<1>. QED BY <1>2 DEF NewObject, Update, Object

(* One made from a row has it, with nothing changed.                       *)
LEMMA FromDbObjectIs ==
  ASSUME NEW S, NEW D, NEW row \in [S -> D]
  PROVE  FromDbObject(row) = Object(row, {})
BY NewObjectIs DEF FromDbObject, ResetChanges, Object

(* What arrives at the other end of the RPC is what was sent.              *)
LEMMA ThroughRpc ==
  ASSUME NEW fields, NEW o \in ObjectsOf(fields)
  PROVE  FromPrimitive(ToPrimitive(o)) = o
<1>1. o = Object(o.vals, o.changed) /\ o.changed \subseteq DOMAIN o.vals
  BY FieldsOfObject
<1>2. NewObject(o.vals) = Object(o.vals, DOMAIN o.vals)
  <2>1. o.vals \in [DOMAIN o.vals -> Data]
    BY FieldsOfObject
  <2>. QED BY <2>1, NewObjectIs
<1>. QED BY <1>1, <1>2 DEF FromPrimitive, ToPrimitive, Object

(* A step after which one holder has a well made object, with the fields   *)
(* marked that were assigned to it or refused.                             *)
LEMMA HoldStep ==
  ASSUME ObjectInv, class' = class, NEW h \in Holders, NEW o, NEW assigned, Hold(h, o, assigned),
         o \in ObjectsOf(Fields), WellMade(o), assigned \subseteq o.changed,
         o.changed \subseteq assigned \cup refused[h]
  PROVE  ObjectInv'
<1>1. /\ obj' \in [Holders -> ObjectsOf(Fields) \cup {NULL}]
      /\ obj'[h] = o /\ \A g \in Holders \ {h} : obj'[g] = obj[g]
  BY DEF Hold, ObjectInv, ObjectTypes
<1>2. o.changed \subseteq Fields
  BY FieldsOfObject
<1>3. /\ own' \in [Holders -> SUBSET Fields]
      /\ own'[h] = assigned /\ \A g \in Holders \ {h} : own'[g] = own[g]
  BY <1>2 DEF Hold, ObjectInv, ObjectTypes
<1>4. /\ refused' \in [Holders -> SUBSET Fields]
      /\ o.changed # {} => refused'[h] = refused[h] \ assigned
      /\ \A g \in Holders \ {h} : refused'[g] = refused[g]
  BY DEF Hold, ObjectInv, ObjectTypes
<1>5. Fields' = Fields /\ Columns' = Columns
  BY DEF Fields, Columns
<1>6. ObjectTypes'
  BY <1>1, <1>3, <1>4, <1>5 DEF ObjectTypes
<1>7. ASSUME NEW g \in Holders, obj'[g] # NULL
      PROVE  WellMade(obj[g])' /\ own'[g] \subseteq obj'[g].changed
             /\ obj'[g].changed \subseteq own'[g] \cup refused'[g]
  <2>1. CASE g = h
    BY <1>1, <1>3, <1>4, <1>5, <2>1 DEF WellMade
  <2>2. CASE g # h
    BY <1>1, <1>3, <1>4, <1>5, <1>7, <2>2 DEF WellMade, ObjectInv, Shapes, NothingForgotten, NothingElse
  <2>. QED BY <2>1, <2>2
<1>. QED BY <1>6, <1>7 DEF ObjectInv, Shapes, NothingForgotten, NothingElse

(* A step that writes no row.                                              *)
LEMMA RowsStay ==
  ASSUME RowInv, class' = class, UNCHANGED <<rows, intent>>
  PROVE  RowInv'
BY DEF RowInv, RowTypes, AssignmentsSurvive, Columns, Live, Ids

(* A row with its id. *)
LEMMA WholeRow ==
  ASSUME RowInv, NEW i \in Live
  PROVE  /\ rows[i] \in [Columns -> Data] /\ i \in 1..Len(rows)
         /\ Whole(i) \in [Fields -> Data]
<1>1. i \in 1..Len(rows) /\ rows[i] \in [Columns -> Data]
  BY DEF RowInv, RowTypes, Live, Ids
<1>2. Whole(i) = [x \in Fields |-> IF x = "id" THEN i ELSE rows[i][x]]
  BY <1>1 DEF Whole, With, Fields
<1>. QED BY <1>1, <1>2 DEF Fields, Data

(* The first row is what was intended, and nobody holds an object.         *)
LEMMA InitInv == Init => IInv
<1>. SUFFICES ASSUME Init PROVE IInv
  OBVIOUS
<1>1. PICK u \in Uuids, v \in Values :
        rows = <<[c \in Columns |-> IF c = "uuid" THEN u ELSE v]>>
  BY DEF Init
<1>. DEFINE row == [c \in Columns |-> IF c = "uuid" THEN u ELSE v]
<1>2. row \in [Columns -> Data]
  BY DEF Data
<1>. HIDE DEF row
<1>3. rows = <<row>> /\ intent = <<row>>
  BY <1>1 DEF Init, row
<1>4. RowInv
  BY <1>2, <1>3 DEF Init, RowInv, RowTypes, AssignmentsSurvive, Live, Ids
<1>5. ObjectInv
  BY DEF Init, ObjectInv, ObjectTypes, Shapes, NothingForgotten, NothingElse
<1>. QED BY <1>4, <1>5 DEF IInv

(* An object that was read has nothing to be written.                      *)
LEMMA GetInv ==
  ASSUME IInv, NEW h \in Holders, Get(h)
  PROVE  IInv'
<1>1. class' = class /\ UNCHANGED <<rows, intent>>
  BY DEF Get, Called
<1>2. PICK i \in Live : Hold(h, FromDbObject(Whole(i)), {})
  BY DEF Get
<1>3. Whole(i) \in [Fields -> Data]
  BY WholeRow DEF IInv
<1>4. FromDbObject(Whole(i)) = Object(Whole(i), {})
  BY <1>3, FromDbObjectIs
<1>. DEFINE o == Object(Whole(i), {})
<1>5. o \in ObjectsOf(Fields) /\ o.vals = Whole(i) /\ o.changed = {}
  BY <1>3, ObjectFields
<1>. HIDE DEF o
<1>6. WellMade(o)
  BY <1>3, <1>5 DEF WellMade, Fields
<1>7. Hold(h, o, {})
  BY <1>2, <1>4 DEF o
<1>8. ObjectInv'
  BY <1>1, <1>5, <1>6, <1>7, HoldStep DEF IInv
<1>. QED BY <1>1, <1>8, RowsStay DEF IInv

(* One that was made has everything to be written.                         *)
LEMMA NewInv ==
  ASSUME IInv, NEW h \in Holders, New(h)
  PROVE  IInv'
<1>1. class' = class /\ UNCHANGED <<rows, intent>>
  BY DEF New, Called
<1>2. PICK columns \in {Columns, Columns \ {"uuid"}} :
        \E values \in RowsOf(columns) : Hold(h, NewObject(values), columns)
  BY DEF New
<1>3. PICK values \in RowsOf(columns) : Hold(h, NewObject(values), columns)
  BY <1>2
<1>4. values \in [columns -> Data]
  BY <1>3 DEF RowsOf, Data
<1>. DEFINE o == Object(values, columns)
<1>5. Hold(h, o, columns)
  BY <1>3, <1>4, NewObjectIs
<1>6. "id" \notin columns /\ columns \subseteq Fields
  BY <1>2, ClassFacts DEF IInv, RowInv, RowTypes, Fields
<1>7. o \in ObjectsOf(Fields) /\ o.vals = values /\ o.changed = columns
  BY <1>4, <1>6, ObjectFields
<1>. HIDE DEF o
<1>8. WellMade(o)
  BY <1>2, <1>4, <1>6, <1>7 DEF WellMade
<1>9. ObjectInv'
  BY <1>1, <1>5, <1>7, <1>8, HoldStep DEF IInv
<1>. QED BY <1>1, <1>9, RowsStay DEF IInv

(* A setter marks its field.                                               *)
LEMMA SetInv ==
  ASSUME IInv, NEW h \in Holders, Set(h)
  PROVE  IInv'
<1>1. class' = class /\ UNCHANGED <<rows, intent>> /\ obj[h] # NULL
  BY DEF Set, Called
<1>2. PICK c \in class.sets, v \in Values : Hold(h, SetField(obj[h], c, v), own[h] \cup {c})
  BY DEF Set
<1>3. c \in Columns /\ c # "id" /\ c \in Fields /\ v \in Data
  BY <1>2, ClassFacts DEF IInv, RowInv, RowTypes, Fields, Data
<1>4. obj[h] \in ObjectsOf(Fields)
  BY <1>1 DEF IInv, ObjectInv, ObjectTypes
<1>. DEFINE vals == With(obj[h].vals, c, v)
            changed == obj[h].changed \cup {c}
<1>5. DOMAIN vals = DOMAIN obj[h].vals \cup {c} /\ vals \in [DOMAIN vals -> Data]
  BY <1>3, <1>4, FieldsOfObject DEF With
<1>6. changed \subseteq DOMAIN vals /\ DOMAIN vals \subseteq Fields
  BY <1>3, <1>4, <1>5, FieldsOfObject
<1>. HIDE DEF vals
<1>. DEFINE o == Object(vals, changed)
<1>7. o \in ObjectsOf(Fields) /\ o.vals = vals /\ o.changed = changed
  BY <1>5, <1>6, ObjectFields
<1>8. Hold(h, o, own[h] \cup {c})
  BY <1>2 DEF SetField, vals
<1>. HIDE DEF o
<1>9. WellMade(o)
  <2>1. WellMade(obj[h])
    BY <1>1 DEF IInv, ObjectInv, Shapes
  <2>. QED BY <1>3, <1>5, <1>7, <2>1 DEF WellMade
<1>10. own[h] \cup {c} \subseteq o.changed /\ o.changed \subseteq own[h] \cup {c} \cup refused[h]
  BY <1>1, <1>7 DEF IInv, ObjectInv, NothingForgotten, NothingElse
<1>11. ObjectInv'
  <2>. DEFINE assigned == own[h] \cup {c}
  <2>. HIDE DEF assigned
  <2>1. assigned \subseteq o.changed /\ o.changed \subseteq assigned \cup refused[h] /\ Hold(h, o, assigned)
    BY <1>8, <1>10 DEF assigned
  <2>. QED BY <1>1, <1>7, <1>9, <2>1, HoldStep DEF IInv
<1>. QED BY <1>1, <1>11, RowsStay DEF IInv

(* A value that was refused leaves a mark.                                 *)
LEMMA SetRefusedInv ==
  ASSUME IInv, NEW h \in Holders, SetRefused(h)
  PROVE  IInv'
<1>1. class' = class /\ UNCHANGED <<rows, intent>> /\ own' = own
      /\ obj[h] # NULL /\ "id" \in DOMAIN obj[h].vals
  BY DEF SetRefused, Called, Made
<1>2. obj[h] \in ObjectsOf(Fields) /\ WellMade(obj[h]) /\ "data" \in Fields
  BY <1>1, ClassFacts DEF IInv, ObjectInv, ObjectTypes, Shapes, RowInv, RowTypes, Fields
<1>. DEFINE changed == obj[h].changed \cup {"data"}
            o == Object(obj[h].vals, changed)
<1>3. o \in ObjectsOf(Fields) /\ o.vals = obj[h].vals /\ o.changed = changed
  <2>1. changed \subseteq DOMAIN obj[h].vals
    BY <1>1, <1>2, FieldsOfObject DEF WellMade
  <2>. HIDE DEF changed
  <2>. QED BY <1>2, <2>1, FieldsOfObject, ObjectFields
<1>4. /\ obj' \in [Holders -> ObjectsOf(Fields) \cup {NULL}]
      /\ obj'[h] = o /\ \A g \in Holders \ {h} : obj'[g] = obj[g]
  BY <1>3 DEF SetRefused, RefuseField, IInv, ObjectInv, ObjectTypes
<1>. HIDE DEF o
<1>5. /\ refused' \in [Holders -> SUBSET Fields]
      /\ refused'[h] = refused[h] \cup ({"data"} \ own[h])
      /\ \A g \in Holders \ {h} : refused'[g] = refused[g]
  BY <1>2 DEF SetRefused, IInv, ObjectInv, ObjectTypes
<1>6. Fields' = Fields /\ Columns' = Columns
  BY <1>1 DEF Fields, Columns
<1>7. ObjectTypes'
  BY <1>1, <1>4, <1>5, <1>6 DEF IInv, ObjectInv, ObjectTypes
<1>8. ASSUME NEW g \in Holders, obj'[g] # NULL
      PROVE  WellMade(obj[g])' /\ own'[g] \subseteq obj'[g].changed
             /\ obj'[g].changed \subseteq own'[g] \cup refused'[g]
  <2>1. CASE g = h
    <3>1. WellMade(obj[h])'
      BY <1>1, <1>2, <1>3, <1>4, <1>6 DEF WellMade
    <3>. QED BY <1>1, <1>3, <1>4, <1>5, <2>1, <3>1 DEF IInv, ObjectInv, NothingForgotten, NothingElse
  <2>2. CASE g # h
    BY <1>1, <1>4, <1>5, <1>6, <1>8, <2>2
       DEF WellMade, IInv, ObjectInv, Shapes, NothingForgotten, NothingElse
  <2>. QED BY <2>1, <2>2
<1>9. ObjectInv'
  BY <1>7, <1>8 DEF ObjectInv, Shapes, NothingForgotten, NothingElse
<1>. QED BY <1>1, <1>9, RowsStay DEF IInv

(* A save that raises leaves the marks.                                    *)
LEMMA SaveRaisesInv ==
  ASSUME IInv, NEW h \in Holders, SaveRaises(h)
  PROVE  IInv'
BY RowsStay DEF SaveRaises, Called, IInv, ObjectInv, ObjectTypes, Shapes, WellMade, NothingForgotten,
   NothingElse, Fields, Columns

(* After a save or a destruction nothing is left to be written.            *)
LEMMA ResetInv ==
  ASSUME IInv, NEW h \in Holders, class' = class, Made(h), Hold(h, ResetChanges(obj[h]), {})
  PROVE  ObjectInv'
<1>1. obj[h] \in ObjectsOf(Fields) /\ DOMAIN obj[h].vals = Fields
  BY DEF Made, IInv, ObjectInv, ObjectTypes, Shapes, WellMade
<1>. DEFINE o == Object(obj[h].vals, {})
<1>2. o \in ObjectsOf(Fields) /\ o.vals = obj[h].vals /\ o.changed = {}
  BY <1>1, FieldsOfObject, ObjectFields
<1>3. Hold(h, o, {})
  BY DEF ResetChanges
<1>. HIDE DEF o
<1>4. WellMade(o)
  BY <1>1, <1>2 DEF WellMade, Fields
<1>. QED BY <1>2, <1>3, <1>4, HoldStep DEF IInv

(* The row gets the changed fields. An assigned one is changed, so what is *)
(* intended is written; a changed one that was not assigned was refused, so*)
(* nothing that others wrote is brought back.                              *)
LEMMA SaveInv ==
  ASSUME IInv, NEW h \in Holders, Save(h)
  PROVE  IInv'
<1>1. class' = class
  BY DEF Save, Called
<1>2. PICK i \in Target(h, class.methods.save) :
        /\ rows' = [rows EXCEPT ![i] = [c \in Columns |-> Saved(rows[i], obj[h])[c]]]
        /\ intent' = [intent EXCEPT ![i] = [c \in Columns |->
             IF c \in own[h] THEN obj[h].vals[c]
             ELSE IF c \in refused[h] THEN NULL ELSE intent[i][c]]]
  BY DEF Save
<1>3. Made(h) /\ i \in Live
  BY <1>2 DEF Target, Match
<1>4. ObjectInv'
  BY <1>1, <1>3, ResetInv DEF Save
<1>5. /\ rows \in Seq([Columns -> Data] \cup {NULL})
      /\ intent \in Seq([Columns -> Data \cup {NULL}] \cup {NULL})
      /\ Len(intent) = Len(rows)
      /\ rows[i] \in [Columns -> Data] /\ i \in 1..Len(rows)
  BY <1>3, WholeRow DEF IInv, RowInv, RowTypes
<1>6. /\ obj[h] \in ObjectsOf(Fields) /\ DOMAIN obj[h].vals = Fields
      /\ obj[h].vals \in [Fields -> Data] /\ obj[h].changed \subseteq Fields
      /\ own[h] \subseteq obj[h].changed /\ obj[h].changed \subseteq own[h] \cup refused[h]
  <2>1. obj[h] \in ObjectsOf(Fields) /\ DOMAIN obj[h].vals = Fields
        /\ own[h] \subseteq obj[h].changed /\ obj[h].changed \subseteq own[h] \cup refused[h]
    BY <1>3 DEF Made, IInv, ObjectInv, ObjectTypes, Shapes, WellMade, NothingForgotten, NothingElse
  <2>. QED BY <2>1, FieldsOfObject
<1>7. \A c \in Columns : Saved(rows[i], obj[h])[c] =
        IF c \in obj[h].changed THEN obj[h].vals[c] ELSE rows[i][c]
  BY <1>5, <1>6 DEF Saved, Over, Changes
<1>. DEFINE row == [c \in Columns |-> Saved(rows[i], obj[h])[c]]
            aim == [c \in Columns |->
                      IF c \in own[h] THEN obj[h].vals[c]
                      ELSE IF c \in refused[h] THEN NULL ELSE intent[i][c]]
<1>8. Columns \subseteq Fields
  BY DEF Fields
<1>9. row \in [Columns -> Data]
  BY <1>5, <1>6, <1>7, <1>8
<1>10. \A c \in Columns : intent[i][c] # NULL => rows[i][c] = intent[i][c]
  BY <1>3 DEF IInv, RowInv, AssignmentsSurvive
<1>11. aim \in [Columns -> Data \cup {NULL}]
  <2>1. intent[i] \in [Columns -> Data \cup {NULL}]
    BY <1>3 DEF IInv, RowInv, RowTypes
  <2>. QED BY <1>6, <1>8, <2>1
<1>12. \A c \in Columns : aim[c] # NULL => row[c] = aim[c]
  BY <1>6, <1>7, <1>10
<1>. HIDE DEF row, aim
<1>13. /\ rows' \in Seq([Columns -> Data] \cup {NULL}) /\ Len(rows') = Len(rows)
       /\ rows'[i] = row /\ \A j \in 1..Len(rows) : j # i => rows'[j] = rows[j]
  <2>1. rows' = [rows EXCEPT ![i] = row]
    BY <1>2 DEF row
  <2>. QED BY <1>5, <1>9, <2>1
<1>14. /\ intent' \in Seq([Columns -> Data \cup {NULL}] \cup {NULL}) /\ Len(intent') = Len(intent)
       /\ intent'[i] = aim /\ \A j \in 1..Len(rows) : j # i => intent'[j] = intent[j]
  <2>1. intent' = [intent EXCEPT ![i] = aim]
    BY <1>2 DEF aim
  <2>. QED BY <1>5, <1>11, <2>1
<1>15. Columns' = Columns /\ Live = {j \in 1..Len(rows) : rows[j] # NULL}
       /\ Live' = {j \in 1..Len(rows) : rows'[j] # NULL}
  BY <1>1, <1>5, <1>13 DEF Columns, Live, Ids
<1>16. ASSUME NEW j \in Live'
       PROVE  /\ intent'[j] \in [Columns -> Data \cup {NULL}]
              /\ \A c \in Columns : intent'[j][c] # NULL => rows'[j][c] = intent'[j][c]
  <2>1. CASE j = i
    BY <1>11, <1>12, <1>13, <1>14, <2>1
  <2>2. CASE j # i
    <3>1. j \in Live /\ rows'[j] = rows[j] /\ intent'[j] = intent[j]
      BY <1>13, <1>14, <1>15, <2>2
    <3>. QED BY <3>1 DEF IInv, RowInv, RowTypes, AssignmentsSurvive
  <2>. QED BY <2>1, <2>2
<1>17. RowInv'
  BY <1>1, <1>5, <1>13, <1>14, <1>15, <1>16 DEF IInv, RowInv, RowTypes, AssignmentsSurvive
<1>. QED BY <1>4, <1>17 DEF IInv

(* A row that is gone holds nothing.                                       *)
LEMMA DestroyInv ==
  ASSUME IInv, NEW h \in Holders, Destroy(h)
  PROVE  IInv'
<1>1. class' = class /\ Made(h) /\ Hold(h, ResetChanges(obj[h]), {})
  BY DEF Destroy, Called
<1>2. ObjectInv'
  BY <1>1, ResetInv
<1>. DEFINE gone == Target(h, class.methods.destroy)
<1>3. /\ rows' = [i \in Ids |-> IF i \in gone THEN NULL ELSE rows[i]]
      /\ intent' = [i \in Ids |-> IF i \in gone THEN NULL ELSE intent[i]]
  BY DEF Destroy
<1>. HIDE DEF gone
<1>4. /\ rows \in Seq([Columns -> Data] \cup {NULL})
      /\ intent \in Seq([Columns -> Data \cup {NULL}] \cup {NULL})
      /\ Len(intent) = Len(rows) /\ Ids = 1..Len(rows) /\ Len(rows) \in Nat
  BY DEF IInv, RowInv, RowTypes, Ids
<1>5. /\ rows' \in [1..Len(rows) -> [Columns -> Data] \cup {NULL}]
      /\ intent' \in [1..Len(rows) -> [Columns -> Data \cup {NULL}] \cup {NULL}]
  BY <1>3, <1>4
<1>6. /\ rows' \in Seq([Columns -> Data] \cup {NULL}) /\ Len(rows') = Len(rows)
      /\ intent' \in Seq([Columns -> Data \cup {NULL}] \cup {NULL}) /\ Len(intent') = Len(rows)
  <2>1. \A S : \A n \in Nat : \A f \in [1..n -> S] : f \in Seq(S) /\ Len(f) = n
    OBVIOUS
  <2>. DEFINE R == [Columns -> Data] \cup {NULL}
              I == [Columns -> Data \cup {NULL}] \cup {NULL}
              n == Len(rows)
  <2>2. n \in Nat /\ rows' \in [1..n -> R] /\ intent' \in [1..n -> I]
    BY <1>4, <1>5
  <2>. HIDE DEF R, I, n
  <2>3. rows' \in Seq(R) /\ Len(rows') = n /\ intent' \in Seq(I) /\ Len(intent') = n
    BY <2>1, <2>2
  <2>. QED BY <2>3 DEF R, I, n
<1>7. Columns' = Columns /\ Live' = {j \in 1..Len(rows) : rows'[j] # NULL}
  BY <1>1, <1>6 DEF Columns, Live, Ids
<1>8. ASSUME NEW j \in Live'
      PROVE  j \in Live /\ rows'[j] = rows[j] /\ intent'[j] = intent[j]
  BY <1>3, <1>4, <1>7 DEF Live
<1>9. RowInv'
  <2>1. \A j \in Live' : intent'[j] \in [Columns -> Data \cup {NULL}]
    BY <1>8 DEF IInv, RowInv, RowTypes
  <2>2. \A j \in Live' : \A c \in Columns : intent'[j][c] # NULL => rows'[j][c] = intent'[j][c]
    BY <1>8 DEF IInv, RowInv, AssignmentsSurvive
  <2>. QED BY <1>1, <1>6, <1>7, <2>1, <2>2 DEF IInv, RowInv, RowTypes, AssignmentsSurvive
<1>. QED BY <1>2, <1>9 DEF IInv

(* A new object has every column but for the uuid, all changed, so the row *)
(* is whole.                                                               *)
LEMMA CreateInv ==
  ASSUME IInv, NEW h \in Holders, Create(h)
  PROVE  IInv'
<1>1. class' = class /\ obj[h] # NULL /\ "id" \notin DOMAIN obj[h].vals
  BY DEF Create, Called, Made
<1>2. PICK row \in Complete(obj[h]) :
        /\ rows' = Append(rows, row) /\ intent' = Append(intent, row)
        /\ Hold(h, FromDbObject(With(row, "id", Len(rows) + 1)), {})
  BY DEF Create
<1>3. /\ obj[h] \in ObjectsOf(Fields) /\ obj[h].changed = DOMAIN obj[h].vals
      /\ Columns \ {"uuid"} \subseteq obj[h].changed /\ obj[h].changed \subseteq Columns
      /\ obj[h].vals \in [DOMAIN obj[h].vals -> Data]
  <2>1. obj[h] \in ObjectsOf(Fields) /\ WellMade(obj[h])
    BY <1>1 DEF IInv, ObjectInv, ObjectTypes, Shapes
  <2>. QED BY <1>1, <2>1, FieldsOfObject DEF WellMade, Fields
<1>4. row \in [Columns -> Data]
  <2>1. Changes(obj[h]) \in [obj[h].changed -> Data]
    BY <1>3 DEF Changes
  <2>2. CASE "uuid" \in Columns /\ "uuid" \notin obj[h].changed
    <3>1. PICK u \in Uuids : row = With(Changes(obj[h]), "uuid", u)
      BY <1>2, <2>2 DEF Complete
    <3>. QED BY <1>3, <2>1, <2>2, <3>1 DEF With, Data
  <2>3. CASE ~("uuid" \in Columns /\ "uuid" \notin obj[h].changed)
    <3>1. row = Changes(obj[h]) /\ obj[h].changed = Columns
      BY <1>2, <1>3, <2>3 DEF Complete
    <3>. QED BY <2>1, <3>1
  <2>. QED BY <2>2, <2>3
<1>5. /\ rows \in Seq([Columns -> Data] \cup {NULL})
      /\ intent \in Seq([Columns -> Data \cup {NULL}] \cup {NULL})
      /\ Len(intent) = Len(rows) /\ Ids = 1..Len(rows) /\ Len(rows) \in Nat
  BY DEF IInv, RowInv, RowTypes, Ids
<1>6. /\ rows' \in Seq([Columns -> Data] \cup {NULL}) /\ Len(rows') = Len(rows) + 1
      /\ rows'[Len(rows) + 1] = row /\ \A j \in 1..Len(rows) : rows'[j] = rows[j]
  BY <1>2, <1>4, <1>5
<1>7. row \in [Columns -> Data \cup {NULL}]
  BY <1>4
<1>8. /\ intent' \in Seq([Columns -> Data \cup {NULL}] \cup {NULL}) /\ Len(intent') = Len(rows) + 1
      /\ intent'[Len(rows) + 1] = row /\ \A j \in 1..Len(rows) : intent'[j] = intent[j]
  BY <1>2, <1>5, <1>7
<1>9. Columns' = Columns /\ Live' = {j \in 1..Len(rows) + 1 : rows'[j] # NULL}
  BY <1>1, <1>6 DEF Columns, Live, Ids
<1>10. ASSUME NEW j \in Live'
       PROVE  /\ intent'[j] \in [Columns -> Data \cup {NULL}]
              /\ \A c \in Columns : intent'[j][c] # NULL => rows'[j][c] = intent'[j][c]
  <2>1. CASE j = Len(rows) + 1
    BY <1>6, <1>7, <1>8, <2>1
  <2>2. CASE j # Len(rows) + 1
    <3>1. j \in Live /\ rows'[j] = rows[j] /\ intent'[j] = intent[j]
      BY <1>5, <1>6, <1>8, <1>9, <2>2 DEF Live
    <3>. QED BY <3>1 DEF IInv, RowInv, RowTypes, AssignmentsSurvive
  <2>. QED BY <2>1, <2>2
<1>11. RowInv'
  BY <1>1, <1>5, <1>6, <1>8, <1>9, <1>10 DEF IInv, RowInv, RowTypes, AssignmentsSurvive
<1>. DEFINE whole == With(row, "id", Len(rows) + 1)
            o == Object(whole, {})
<1>12. whole \in [Fields -> Data]
  BY <1>4, <1>5 DEF With, Fields, Data
<1>. HIDE DEF whole
<1>13. o \in ObjectsOf(Fields) /\ o.vals = whole /\ o.changed = {}
  BY <1>12, ObjectFields
<1>14. Hold(h, o, {})
  BY <1>2, <1>12, FromDbObjectIs DEF whole
<1>. HIDE DEF o
<1>15. WellMade(o)
  BY <1>12, <1>13 DEF WellMade, Fields
<1>16. ObjectInv'
  BY <1>1, <1>13, <1>14, <1>15, HoldStep DEF IInv
<1>. QED BY <1>11, <1>16 DEF IInv

(* The fields that differ are assigned, and marked by the setters.         *)
LEMMA RefreshInv ==
  ASSUME IInv, NEW h \in Holders, RefreshObject(h)
  PROVE  IInv'
<1>1. class' = class /\ UNCHANGED <<rows, intent>>
  BY DEF RefreshObject, Called
<1>. DEFINE fresh(i) == Refresh(obj[h], Whole(i))
<1>2. PICK i \in Target(h, class.methods.refresh) :
        Hold(h, fresh(i), own[h] \cup {c \in DOMAIN fresh(i).vals : fresh(i).vals[c] # obj[h].vals[c]})
  BY DEF RefreshObject
<1>3. Made(h) /\ i \in Live
  BY <1>2 DEF Target, Match
<1>4. /\ obj[h] # NULL /\ obj[h] \in ObjectsOf(Fields) /\ DOMAIN obj[h].vals = Fields
      /\ obj[h].vals \in [Fields -> Data] /\ obj[h].changed \subseteq Fields
      /\ own[h] \subseteq obj[h].changed /\ obj[h].changed \subseteq own[h] \cup refused[h]
  <2>1. obj[h] # NULL /\ obj[h] \in ObjectsOf(Fields) /\ DOMAIN obj[h].vals = Fields
        /\ own[h] \subseteq obj[h].changed /\ obj[h].changed \subseteq own[h] \cup refused[h]
    BY <1>3 DEF Made, IInv, ObjectInv, ObjectTypes, Shapes, WellMade, NothingForgotten, NothingElse
  <2>. QED BY <2>1, FieldsOfObject
<1>5. Whole(i) \in [Fields -> Data]
  BY <1>3, WholeRow DEF IInv
<1>. DEFINE differ  == {f \in Fields : obj[h].vals[f] # Whole(i)[f]}
            changed == obj[h].changed \cup differ
            vals    == [f \in Fields |-> Whole(i)[f]]
            o       == Object(vals, changed)
<1>6. fresh(i) = o
  <2>1. [f \in {g \in DOMAIN obj[h].vals \cap DOMAIN Whole(i) : obj[h].vals[g] # Whole(i)[g]}
           |-> Whole(i)[f]] = [f \in differ |-> Whole(i)[f]]
    BY <1>4, <1>5
  <2>2. Over([f \in differ |-> Whole(i)[f]], obj[h].vals) = vals
    BY <1>4, <1>5 DEF Over
  <2>. QED BY <2>1, <2>2 DEF Refresh, Update
<1>7. o \in ObjectsOf(Fields) /\ o.vals = vals /\ o.changed = changed
  <2>1. vals \in [Fields -> Data] /\ changed \subseteq Fields
    BY <1>4, <1>5
  <2>. HIDE DEF vals, changed
  <2>. QED BY <2>1, ObjectFields
<1>. DEFINE assigned == own[h] \cup {c \in DOMAIN o.vals : o.vals[c] # obj[h].vals[c]}
<1>8. assigned = own[h] \cup differ
  BY <1>7
<1>9. Hold(h, o, assigned)
  BY <1>2, <1>6
<1>10. assigned \subseteq o.changed /\ o.changed \subseteq assigned \cup refused[h]
  BY <1>4, <1>7, <1>8
<1>11. WellMade(o)
  BY <1>7 DEF WellMade, Fields
<1>. HIDE DEF o, assigned
<1>12. ObjectInv'
  BY <1>1, <1>7, <1>9, <1>10, <1>11, HoldStep DEF IInv
<1>. QED BY <1>1, <1>12, RowsStay DEF IInv

(* The marks travel with the object.                                       *)
LEMMA SendInv ==
  ASSUME IInv, NEW h \in Holders, NEW g \in Holders \ {h}, Send(h, g)
  PROVE  IInv'
<1>1. class' = class /\ UNCHANGED <<rows, intent>> /\ obj[h] # NULL
  BY DEF Send, Called
<1>2. obj[h] \in ObjectsOf(Fields)
  BY <1>1 DEF IInv, ObjectInv, ObjectTypes
<1>3. FromPrimitive(ToPrimitive(obj[h])) = obj[h]
  BY <1>2, ThroughRpc
<1>4. /\ obj' \in [Holders -> ObjectsOf(Fields) \cup {NULL}]
      /\ obj'[g] = obj[h] /\ obj'[h] = NULL /\ \A k \in Holders \ {g, h} : obj'[k] = obj[k]
  BY <1>2, <1>3 DEF Send, IInv, ObjectInv, ObjectTypes
<1>5. /\ own' \in [Holders -> SUBSET Fields] /\ refused' \in [Holders -> SUBSET Fields]
      /\ own'[g] = own[h] /\ refused'[g] = refused[h]
      /\ \A k \in Holders \ {g, h} : own'[k] = own[k] /\ refused'[k] = refused[k]
  BY DEF Send, IInv, ObjectInv, ObjectTypes
<1>6. Fields' = Fields /\ Columns' = Columns
  BY <1>1 DEF Fields, Columns
<1>7. ObjectTypes'
  BY <1>4, <1>5, <1>6 DEF ObjectTypes
<1>8. ASSUME NEW k \in Holders, obj'[k] # NULL
      PROVE  WellMade(obj[k])' /\ own'[k] \subseteq obj'[k].changed
             /\ obj'[k].changed \subseteq own'[k] \cup refused'[k]
  <2>1. PICK from \in Holders : /\ obj'[k] = obj[from] /\ own'[k] = own[from]
                                /\ refused'[k] = refused[from]
    BY <1>4, <1>5, <1>8
  <2>2. WellMade(obj[from]) /\ own[from] \subseteq obj[from].changed
        /\ obj[from].changed \subseteq own[from] \cup refused[from]
    BY <1>8, <2>1 DEF IInv, ObjectInv, Shapes, NothingForgotten, NothingElse
  <2>. QED BY <1>6, <2>1, <2>2 DEF WellMade
<1>9. ObjectInv'
  BY <1>7, <1>8 DEF ObjectInv, Shapes, NothingForgotten, NothingElse
<1>. QED BY <1>1, <1>9, RowsStay DEF IInv

(* Every step keeps the invariant.                                         *)
LEMMA NextInv == IInv /\ [Next]_vars => IInv'
<1>. SUFFICES ASSUME IInv, [Next]_vars PROVE IInv'
  OBVIOUS
<1>1. CASE UNCHANGED vars
  BY <1>1, RowsStay DEF vars, IInv, ObjectInv, ObjectTypes, Shapes, WellMade, NothingForgotten,
                        NothingElse, Fields, Columns
<1>2. CASE Next
  BY <1>2, GetInv, NewInv, SetInv, SetRefusedInv, CreateInv, SaveInv, SaveRaisesInv,
     DestroyInv, RefreshInv, SendInv DEF Next
<1>. QED BY <1>1, <1>2

(* IInv holds of every state of every behaviour. *)
THEOREM Inductive == Spec => []IInv
BY InitInv, NextInv, PTL DEF Spec

(* A row holds what was last assigned and saved, whatever the holders of    *)
(* its other objects do, but where a value was refused.                     *)
THEOREM RowsAreIntended == Spec => []AssignmentsSurvive
<1>1. IInv => AssignmentsSurvive
  BY DEF IInv, RowInv
<1>. QED BY <1>1, Inductive, PTL

(* What was assigned stays marked until it is written.                     *)
THEOREM ChangesAreKept == Spec => []NothingForgotten
<1>1. IInv => NothingForgotten
  BY DEF IInv, ObjectInv
<1>. QED BY <1>1, Inductive, PTL
=============================================================================
