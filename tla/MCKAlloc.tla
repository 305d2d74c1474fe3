------------------------------ MODULE MCKAlloc ------------------------------
(* TLC instance of KAlloc: 8 pages of 2 bytes, the null page reserved, so    *)
(* that blocks of four orders are split and merged.                          *)
EXTENDS KAlloc

MCAvailable == 1 .. (NPages - 1)

\* One page, a byte more than two pages, four pages.  A size between two powers of
\* two, as test_kalloc has one (k-alloc.cc:239), gets the smaller block.
MCSizes == {PageSize, 2 * PageSize + 1, 4 * PageSize}
=============================================================================
