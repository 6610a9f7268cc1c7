---- MODULE MCApplication ----
EXTENDS Application

CONSTANTS b1, b2, b3, b4, shed, field, w1, t1, nan

MCBlocks == {b1, b2, b3, b4}
MCConfigured == [s \in Strings |-> shed]

\* Enough memory, or none for one of the strings, which leaves a block to spare.
MCLacking == {{}, {"Manufacturer"}}

\* A hundredth of a degree, which may be taken for less, and just short of three.
MCAzimuths == {10, 29}
====
