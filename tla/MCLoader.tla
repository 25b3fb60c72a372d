----------------------------- MODULE MCLoader -----------------------------
(* Small programs for Loader.                                              *)
EXTENDS Loader

\* Addresses of the pages modelled; the last page is left free for a loop
\* that runs too far.
End == (PageCount - 1) * PAGE_SIZE

\* The segments between two addresses.
SegmentsIn(from, to) ==
    UNION {UNION {{[load |-> TRUE, va |-> va, memsz |-> m, filesz |-> f] : f \in 0 .. m}
                  : m \in 1 .. to - va} : va \in from .. to - 1}
Note == [load |-> FALSE, va |-> 0, memsz |-> 0, filesz |-> 0]

\* One segment after a header of another type, or two in ascending order, as a
\* linker makes them.
SmallPrograms ==
    {<<Note, s>> : s \in SegmentsIn(0, End)} \union
    UNION {{<<s, t>> : t \in SegmentsIn(s.va + s.memsz, End)} : s \in SegmentsIn(0, End)}

=============================================================================
