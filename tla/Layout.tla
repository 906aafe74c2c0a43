------------------------------- MODULE Layout -------------------------------
(***************************************************************************)
(* The memory of a Cap'n Proto struct as the generated accessors use it:   *)
(* a data section addressed in units of the accessor's own width, and a    *)
(* section of pointer slots. StructReader and StructBuilder belong to the  *)
(* capnp crate; what they do is taken from the accessors' calls.           *)
(*                                                                         *)
(* A field is a place: width in bits (0: a pointer), index in units of     *)
(* that width, the discriminant its setter writes first (-1: none), and    *)
(* whether the value must be an enumerant of the schema. A value occupies  *)
(* every bit of its place, so that overlapping places disturb each other.  *)
(***************************************************************************)
EXTENDS Integers, Sequences

Place(w, i, d, e) == [w |-> w, i |-> i, d |-> d, e |-> e]
Ptr(i) == Place(0, i, -1, FALSE)         \* get_pointer_field(i)
Bool(i) == Place(1, i, -1, FALSE)        \* get_bool_field(i)
U8(i) == Place(8, i, -1, FALSE)          \* get_data_field::<u8>(i)
U16(i) == Place(16, i, -1, FALSE)
I32(i) == Place(32, i, -1, FALSE)
U64(i) == Place(64, i, -1, FALSE)
I64(i) == Place(64, i, -1, FALSE)
Enum(i) == Place(16, i, -1, TRUE)        \* a u16 that goes through try_into
Member(i, d) == Place(0, i, d, FALSE)    \* a pointer in a union, tag u16(0)

\* STRUCT_SIZE and the setters of a Builder.
Struct(data, pointers, set) ==
    [data |-> data, pointers |-> pointers, set |-> set]

\* The getters of a struct's Reader with its Builder.
Accessors(reader, builder) == [get |-> reader, builder |-> builder]

\* A message is what has been written: bits and slots, all else is zero.
Blank == [data |-> <<>>, ptr |-> <<>>]

Null == 0
Enumerants == 0 .. 2      \* both enums of the schemas have three
Junk == -1                \* bits of two different writes
NotInSchema == -2

Bits(f) == f.i * f.w .. f.i * f.w + f.w - 1

\* g with v at every point of S.
Assign(g, S, v) == [x \in DOMAIN g \cup S |-> IF x \in S THEN v ELSE g[x]]

PutData(m, f, v) == [m EXCEPT !.data = Assign(@, Bits(f), v)]

Put(m, f, v) ==
    LET t == IF f.d >= 0 THEN PutData(m, U16(0), f.d) ELSE m
    IN  IF f.w = 0 THEN [t EXCEPT !.ptr = Assign(@, {f.i}, v)] ELSE PutData(t, f, v)

GetData(m, f) ==
    LET bits == {IF b \in DOMAIN m.data THEN m.data[b] ELSE 0 : b \in Bits(f)}
    IN  IF \E v \in bits : bits = {v} THEN CHOOSE v \in bits : TRUE ELSE Junk

Has(m, f) ==
    /\ f.d >= 0 => GetData(m, U16(0)) = f.d
    /\ f.i \in DOMAIN m.ptr

Get(m, f) ==
    IF f.w = 0 THEN IF Has(m, f) THEN m.ptr[f.i] ELSE Null
    ELSE IF f.e /\ GetData(m, f) \notin Enumerants THEN NotInSchema
    ELSE GetData(m, f)

\* A struct behind a pointer; a null pointer reads as a struct of defaults.
Child(m, f) == IF Has(m, f) THEN m.ptr[f.i] ELSE Blank

\* The setter of field f of builder b, called on message m.
SetField(m, b, f, v) == Put(m, b.set[f], v)

\* Nothing lies outside the sections that STRUCT_SIZE allocates: the crate
\* does not check a setter's offset.
InBounds(m, b) ==
    /\ DOMAIN m.data \subseteq 0 .. 64 * b.data - 1
    /\ DOMAIN m.ptr \subseteq 0 .. b.pointers - 1

=============================================================================
