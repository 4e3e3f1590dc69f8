------------------------------ MODULE MCUnits -------------------------------
(* The instances of the sequential parts; those of the processor are MCMips'.*)
EXTENDS Units, MCMips

\* Sections in the order the linker gives them; gap is a hole before .bss.
MCLayout(t, r, d, sb, gap, b) ==
    <<[name |-> ".text",  paddr |-> 0,                    size |-> t],
      [name |-> ".rdata", paddr |-> t,                    size |-> r],
      [name |-> ".data",  paddr |-> t + r,                size |-> d],
      [name |-> ".sbss",  paddr |-> t + r + d,            size |-> sb],
      [name |-> ".bss",   paddr |-> t + r + d + sb + gap, size |-> b]>>

\* With and without read-only and plain data, with the two bss sections
\* adjacent or apart, and too large for a memory or not.
MCLayouts ==
    {MCLayout(t, r, d, sb, 0, b) : t \in {1, 3}, r \in {0, 2}, d \in {0, 1, 2}, sb \in {0, 1}, b \in {0, 2}}
    \cup {MCLayout(t, r, d, 1, 6, 2) : t \in {1, 3}, r \in {0, 2}, d \in {0, 1, 2}}

\* Buffers that end on the second page.
MCBuffers == {<<1, 2>>, <<1, 3>>}
=============================================================================
