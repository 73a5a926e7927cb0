---------------------------- MODULE Annotations ----------------------------
(***************************************************************************)
(* What the use cases tell each other about entities (EntityAnnotations of *)
(* detection/annotations.py): a bounded table, coldest entity first.       *)
(* Writing and reading an entity both make it the warmest.                 *)
(***************************************************************************)
EXTENDS Integers, Sequences, SequencesExt

CONSTANTS
    Entity,       \* server, address and user-agent
    Note,         \* what a use case exports about an entity
    MaxEntities   \* EntityAnnotations.max_entities

VARIABLE table

Annotation == [entity: Entity, note: Note]

AnnotationsTypeOK == table \in Seq(Annotation) /\ Len(table) <= MaxEntities

AnnotationsInit == table = <<>>

Known(e) == \E i \in DOMAIN table : table[i].entity = e

\* Where an entity that is known is in the table; it is there once.
Place(e) == CHOOSE i \in DOMAIN table : table[i].entity = e

Without(e) == IF Known(e) THEN RemoveAt(table, Place(e)) ELSE table

\* What get returns to a use case that asks about e; None stands for no signal.
Current(e) == table[Place(e)].note

Warmed(e) == IF Known(e) THEN Append(Without(e), [entity |-> e, note |-> Current(e)])
             ELSE table

\* annotate on a table that was read for the same entity just before.
Annotated(e, note) ==
    LET rest == Without(e)
        room == IF Len(rest) >= MaxEntities THEN Tail(rest) ELSE rest
    IN  Append(room, [entity |-> e, note |-> note])

\* The scorer reads, and writes when the use case exports something.
Read(e) == table' = Warmed(e)

ReadAndAnnotate(e, note) == table' = Annotated(e, note)
=============================================================================
