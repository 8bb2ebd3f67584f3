---------------------------- MODULE UniformBlock ----------------------------
(***************************************************************************)
(* How the painted items hand their values to the shaders with Qt 6        *)
(* (src/Eos/Items/src/material.h): UniformWriter packs values one after the*)
(* other into the uniform buffer, and a shader finds each member of its    *)
(* std140 block at the place that the layout rules give it.                *)
(***************************************************************************)
EXTENDS Integers, Sequences

\* The members of the block, in the order in which they are written: matrix,
\* opacity, colour, two scales, dest, the texture's rect, rotation.
BaseMembers == << "mat4", "float", "vec4", "float", "float", "vec4", "vec4", "int" >>
Color == 3
Dest == 6

\* A Beziergon appends its four corners and eight control points.
BeziergonMembers == BaseMembers \o [i \in 1 .. 12 |-> "vec2"]
Corners == 9 .. 20

\* Bytes of a value, and of the parts in which it is written: a matrix goes as a
\* whole, a vector float by float.
Bytes == [mat4 |-> 64, vec4 |-> 16, vec2 |-> 8, float |-> 4, int |-> 4]
PartBytes(type) == IF type = "mat4" THEN 64 ELSE 4

----------------------------------------------------------------------------
\* Mutant: moves on to the next multiple even from a multiple.
AlignPast(offset, n) == offset + n - (offset % n)

\* align()
Align(offset, n) == (offset + (n - 1)) - ((offset + (n - 1)) % n)

\* Which write() aligns: those of vectors and matrices.
WriteAlignment(type) == CASE type \in {"mat4", "vec4"} -> 16
                          [] type = "vec2"             -> 8
                          [] OTHER                     -> 1

\* write(): the parts of the value that fit in the buffer, m_size bytes long; what
\* does not fit is left out and the offset stays.
Write(writer, type, member) ==
    LET start == Align(writer.offset, WriteAlignment(type))
        part  == PartBytes(type)
        Ends(k) == start + k * part
        fits  == {k \in 1 .. (Bytes[type] \div part) : Ends(k) <= writer.size}
    IN  [writer EXCEPT
            !.offset = IF fits = {} THEN start
                       ELSE Ends(CHOOSE k \in fits : \A j \in fits : j <= k),
            !.block = @ \cup {[at |-> Ends(k - 1), member |-> member, part |-> k] :
                                 k \in fits}]

\* updateUniformData(): the whole block.
BlockOf(members, size) ==
    LET written[i \in 0 .. Len(members)] ==
            IF i = 0 THEN [offset |-> 0, size |-> size, block |-> {}]
                     ELSE Write(written[i - 1], members[i], i)
    IN  written[Len(members)].block

----------------------------------------------------------------------------
(***************************************************************************)
(* The rules of std140, which the shaders' blocks declare.                 *)
(***************************************************************************)
StdAlignment == [mat4 |-> 16, vec4 |-> 16, vec2 |-> 8, float |-> 4, int |-> 4]

StdOffsets(members) ==
    LET NextMultiple(o, n) == CHOOSE m \in o .. (o + n - 1) : m % n = 0
        offset[i \in 1 .. Len(members)] ==
            IF i = 1 THEN 0
                     ELSE NextMultiple(offset[i - 1] + Bytes[members[i - 1]],
                                       StdAlignment[members[i]])
    IN  offset

StdSize(members) ==
    StdOffsets(members)[Len(members)] + Bytes[members[Len(members)]]

\* The members that the shader of a Beziergon finds where it looks for them; the block
\* of a Parallelogram is the start of this one.
ArrivingMembers ==
    LET offsets == StdOffsets(BeziergonMembers)
        block   == BlockOf(BeziergonMembers, StdSize(BeziergonMembers))
        Arrives(member) ==
            LET part == PartBytes(BeziergonMembers[member])
            IN  \A k \in 1 .. (Bytes[BeziergonMembers[member]] \div part) :
                    [at |-> offsets[member] + (k - 1) * part,
                     member |-> member, part |-> k] \in block
    IN  {i \in 1 .. Len(BeziergonMembers) : Arrives(i)}
=============================================================================
