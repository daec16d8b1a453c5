-------------------------------- MODULE Grid --------------------------------
(***************************************************************************)
(* laplace::engine::eval::grid (src/source/laplace/engine/eval/ee_grid.cpp):*)
(* the algorithms path maps are built and searched with, on a row-major    *)
(* map of Width x Height tiles (eval/maze.h: 0 walkable, 1 wall).          *)
(*                                                                         *)
(* The state is one input: a map, a footprint with its center, and a       *)
(* position.  Convolve (grid::convolve) and FindNearest (grid::nearest)    *)
(* are applied to it in turn; trace_line and the neighbour functions are   *)
(* checked on the map for every pair of cells.                            *)
(***************************************************************************)
EXTENDS Integers, Sequences, FiniteSets, SequencesExt

CONSTANTS
    Width, Height,  \* the map's size
    Footprints,     \* footprints: [w, h, cx, cy, cells] with cells[y*w+x+1]
    Positions,      \* positions passed to nearest
    Offsets,        \* offsets merge may place a footprint at
    Ops             \* merge_op callbacks, by name

ASSUME Width \in Nat \ {0} /\ Height \in Nat \ {0}

VARIABLES
    tiles,   \* the source map, tiles[y * Width + x]
    fp,      \* the footprint convolve stamps
    cspace,  \* convolve's destination
    pos,     \* nearest's position
    found,   \* the cell nearest returned
    merged,  \* merge's destination (a copy of cspace), offset and merge_op
    step     \* "convolve", "nearest", "merge" or "done"

vars == <<tiles, fp, cspace, pos, found, merged, step>>

Cells == 0..(Width * Height - 1)
X(p) == p % Width
Y(p) == p \div Width
Idx(x, y) == y * Width + x
Abs(n) == IF n < 0 THEN -n ELSE n

\* fn_available of the path search: a walkable tile.
Available(v) == v <= 0

-----------------------------------------------------------------------------
(* trace_line with the sight callback of path_search_init: the cells from  *)
(* one end to the other, stopping at the first one outside the map or not  *)
(* available.  The result is whether the line is clear and the cells       *)
(* visited, the blocking one included.                                    *)
InMap(x, y) == x >= 0 /\ x < Width /\ y >= 0 /\ y < Height
Visit(m, x, y) == InMap(x, y) /\ Available(m[Idx(x, y)])

Clear == [ok |-> TRUE, pts |-> <<>>]
Blocked(x, y) == [ok |-> FALSE, pts |-> << <<x, y>> >>]
Prepend(x, y, r) == [r EXCEPT !.pts = << <<x, y>> >> \o @]

RECURSIVE WalkXNoReset(_, _, _, _, _, _, _, _)
WalkXNoReset(m, x, xe, y, d, dx, dy, ys) ==
    IF x > xe THEN Clear
    ELSE IF ~Visit(m, x, y) THEN Blocked(x, y)
    ELSE LET d1 == d + dy
             up == d1 >= dx
         IN  Prepend(x, y, WalkXNoReset(m, x + 1, xe, IF up THEN y + ys ELSE y,
                                        d1, dx, dy, ys))

\* The x-major loop: y moves by ys whenever the error term reaches dx.
RECURSIVE WalkX(_, _, _, _, _, _, _, _)
WalkX(m, x, xe, y, d, dx, dy, ys) ==
    IF x > xe THEN Clear
    ELSE IF ~Visit(m, x, y) THEN Blocked(x, y)
    ELSE LET d1 == d + dy
             up == d1 >= dx
         IN  Prepend(x, y, WalkX(m, x + 1, xe, IF up THEN y + ys ELSE y,
                                 IF up THEN d1 - dx ELSE d1, dx, dy, ys))

\* The y-major loop, the same with the axes exchanged.
RECURSIVE WalkY(_, _, _, _, _, _, _, _)
WalkY(m, y, ye, x, d, dx, dy, xs) ==
    IF y > ye THEN Clear
    ELSE IF ~Visit(m, x, y) THEN Blocked(x, y)
    ELSE LET d1 == d + dx
             up == d1 >= dy
         IN  Prepend(x, y, WalkY(m, y + 1, ye, IF up THEN x + xs ELSE x,
                                 IF up THEN d1 - dy ELSE d1, dx, dy, xs))

\* The endpoints are swapped so the major axis always increases.
TraceLine(m, a, b) ==
    LET dx == Abs(a[1] - b[1])
        dy == Abs(a[2] - b[2])
        s  == IF dx > dy THEN (IF b[1] < a[1] THEN b ELSE a)
                         ELSE (IF b[2] < a[2] THEN b ELSE a)
        e  == IF s = a THEN b ELSE a
    IN  IF dx > dy
        THEN WalkX(m, s[1], e[1], s[2], dx \div 2, dx, dy, IF s[2] < e[2] THEN 1 ELSE -1)
        ELSE WalkY(m, s[2], e[2], s[1], dy \div 2, dx, dy, IF s[1] < e[1] THEN 1 ELSE -1)

-----------------------------------------------------------------------------
(* neighbors4 and neighbors8: the n-th neighbour of a cell as a link to a  *)
(* node, "skip" when it is outside the map or not available, "none" (no   *)
(* link) for a cell outside the map, on the left, top or right border, or *)
(* not available itself, and for an n past the last direction.            *)
NoNode   == -1  \* the default link: no node
SkipNode == -2  \* link::skip
NoLink   == [node |-> NoNode]
SkipLink == [node |-> SkipNode]

Check(m, p, diag) ==
    IF p < 0 \/ p >= Width * Height \/ ~Available(m[p]) THEN SkipLink
    ELSE [node |-> p, diag |-> diag]

NeighborsBorderless(m, p, n) ==
    IF p < 0 \/ p >= Width * Height THEN NoLink
    ELSE IF X(p) <= 0 \/ Y(p) <= 0 THEN NoLink
    ELSE IF ~Available(m[p]) THEN NoLink
    ELSE CASE n = 0 -> Check(m, p - Width, FALSE)
           [] n = 1 -> Check(m, p + Width, FALSE)
           [] n = 2 -> Check(m, p - 1, FALSE)
           [] n = 3 -> Check(m, p + 1, FALSE)
           [] n = 4 -> Check(m, p - Width - 1, TRUE)
           [] n = 5 -> Check(m, p - Width + 1, TRUE)
           [] n = 6 -> Check(m, p + Width - 1, TRUE)
           [] n = 7 -> Check(m, p + Width + 1, TRUE)
           [] OTHER -> NoLink

Neighbors8(m, p, n) ==
    IF p < 0 \/ p >= Width * Height THEN NoLink
    ELSE IF X(p) <= 0 \/ Y(p) <= 0 \/ X(p) >= Width - 1 THEN NoLink
    ELSE IF ~Available(m[p]) THEN NoLink
    ELSE CASE n = 0 -> Check(m, p - Width, FALSE)
           [] n = 1 -> Check(m, p + Width, FALSE)
           [] n = 2 -> Check(m, p - 1, FALSE)
           [] n = 3 -> Check(m, p + 1, FALSE)
           [] n = 4 -> Check(m, p - Width - 1, TRUE)
           [] n = 5 -> Check(m, p - Width + 1, TRUE)
           [] n = 6 -> Check(m, p + Width - 1, TRUE)
           [] n = 7 -> Check(m, p + Width + 1, TRUE)
           [] OTHER -> NoLink

Neighbors4(m, p, n) ==
    IF n \in 0..3 THEN Neighbors8(m, p, n) ELSE NoLink

-----------------------------------------------------------------------------
(* convolve: every source cell > 0 stamps the footprint's cells > 0 into   *)
(* dst, the footprint's center on the cell, clipped to the map.           *)
StampedWide(src, f) ==
    { Idx(i - f.cx + x, j - f.cy + y) :
        << i, j, x, y >> \in
          { t \in (0..(Width - 1)) \X (0..(Height - 1)) \X (0..(f.w - 1)) \X (0..(f.h - 1)) :
              LET i == t[1]  j == t[2]  x == t[3]  y == t[4]
                  i0 == i - f.cx  j0 == j - f.cy
              IN  /\ src[Idx(i, j)] > 0
                  /\ f.cells[y * f.w + x + 1] > 0
                  /\ x >= (IF i0 > 0 THEN i0 ELSE 0) - i0
                  /\ x <  (IF Width < i0 + f.w THEN Width ELSE i0 + f.w) - i0 + 1
                  /\ y >= (IF j0 > 0 THEN j0 ELSE 0) - j0
                  /\ y <  (IF Height < j0 + f.h THEN Height ELSE j0 + f.h) - j0 } }

Stamped(src, f) ==
    { Idx(i - f.cx + x, j - f.cy + y) :
        << i, j, x, y >> \in
          { t \in (0..(Width - 1)) \X (0..(Height - 1)) \X (0..(f.w - 1)) \X (0..(f.h - 1)) :
              LET i == t[1]  j == t[2]  x == t[3]  y == t[4]
                  i0 == i - f.cx  j0 == j - f.cy
              IN  /\ src[Idx(i, j)] > 0
                  /\ f.cells[y * f.w + x + 1] > 0
                  /\ x >= (IF i0 > 0 THEN i0 ELSE 0) - i0
                  /\ x <  (IF Width < i0 + f.w THEN Width ELSE i0 + f.w) - i0
                  /\ y >= (IF j0 > 0 THEN j0 ELSE 0) - j0
                  /\ y <  (IF Height < j0 + f.h THEN Height ELSE j0 + f.h) - j0 } }

Convolve(dst, src, f) == [p \in Cells |-> IF p \in Stamped(src, f) THEN 1 ELSE dst[p]]

-----------------------------------------------------------------------------
(* nearest: the position clamped into the map; if that tile is <= 0 it is  *)
(* the answer.  Otherwise rings of growing radius are scanned (the left    *)
(* and right columns without their ends, then the top and bottom rows), a  *)
(* side only when it lies inside the map, keeping the first cell of least  *)
(* squared distance that meets the condition, until the best distance is   *)
(* within the radius squared.                                             *)
ClampNoUpper(v, hi) == IF v < 0 THEN 0 ELSE v

Clamp(v, hi) == IF v < 0 THEN 0 ELSE IF v > hi THEN hi ELSE v

Range2(lo, hi) == [k \in 1..(IF hi >= lo THEN hi - lo + 1 ELSE 0) |-> lo + k - 1]

RingPoints(x0, y0, r) ==
    LET i0 == IF x0 - r > 0 THEN x0 - r ELSE 0
        j0 == IF y0 - r > 0 THEN y0 - r ELSE 0
        i1 == IF x0 + r < Width - 1 THEN x0 + r ELSE Width - 1
        j1 == IF y0 + r < Height - 1 THEN y0 + r ELSE Height - 1
        col(i) == [k \in DOMAIN Range2(j0 + 1, j1 - 1) |-> <<i, Range2(j0 + 1, j1 - 1)[k]>>]
        row(j) == [k \in DOMAIN Range2(i0, i1) |-> <<Range2(i0, i1)[k], j>>]
    IN  (IF x0 - r >= 0 THEN col(i0) ELSE <<>>)
        \o (IF x0 + r < Width THEN col(i1) ELSE <<>>)
        \o (IF y0 - r >= 0 THEN row(j0) ELSE <<>>)
        \o (IF y0 + r < Height THEN row(j1) ELSE <<>>)

DoPoint(m, x0, y0, best, pt) ==
    LET s == (pt[1] - x0) * (pt[1] - x0) + (pt[2] - y0) * (pt[2] - y0)
    IN  IF Available(m[Idx(pt[1], pt[2])]) /\ (best.dist < 0 \/ s < best.dist)
        THEN [x |-> pt[1], y |-> pt[2], dist |-> s]
        ELSE best

RECURSIVE Rings(_, _, _, _, _, _)
Rings(m, x0, y0, r, maxR, best) ==
    IF r > maxR THEN best
    ELSE LET b == FoldLeft(LAMBDA acc, pt : DoPoint(m, x0, y0, acc, pt),
                           best, RingPoints(x0, y0, r))
         IN  IF 0 < b.dist /\ b.dist <= r * r THEN b
             ELSE Rings(m, x0, y0, r + 1, maxR, b)

Nearest(position, m) ==
    LET x0 == Clamp(position[1], Width - 1)
        y0 == Clamp(position[2], Height - 1)
        mx(a, b) == IF a > b THEN a ELSE b
        maxR == mx(mx(x0, Width - x0), mx(y0, Height - y0))
        b == Rings(m, x0, y0, 1, maxR, [x |-> x0, y |-> y0, dist |-> -1])
    IN  IF m[Idx(x0, y0)] <= 0 THEN <<x0, y0>> ELSE <<b.x, b.y>>

-----------------------------------------------------------------------------
(* merge: dst[i] = merge_op(dst[i], src[i]) over the first size.x * size.y *)
(* cells, or nothing when either span is shorter.  The second overload     *)
(* places a src_size rectangle at src_offset: row y, column x of src goes  *)
(* to (src_offset.y + y) * dst_size.x + src_offset.x + x, rows outer.      *)
(* Spans are 0-based functions; sizes and offsets are <<x, y>> pairs.      *)
MergeOp(op, a, b) == IF op = "max" THEN (IF a > b THEN a ELSE b)
                     ELSE (IF a < b THEN a ELSE b)

SpanSize(s) == Cardinality(DOMAIN s)

Merge(size, dst, src, op) ==
    LET count == size[1] * size[2]
    IN  IF count > SpanSize(dst) \/ count > SpanSize(src) THEN dst
        ELSE [i \in DOMAIN dst |-> IF i < count THEN MergeOp(op, dst[i], src[i]) ELSE dst[i]]

\* The cells of a size, in the order of the loops: y outer, x inner.
RowMajor(size) == [k \in 1..(size[1] * size[2]) |-> << (k - 1) % size[1], (k - 1) \div size[1] >>]

\* A mutant of the placed merge: rows of dst are strided by src's width.
MergeAtSrcStride(dsz, dst, ssz, off, src, op) ==
    IF dsz[1] * dsz[2] > SpanSize(dst) \/ ssz[1] * ssz[2] > SpanSize(src) THEN dst
    ELSE FoldLeft(LAMBDA d, t :
                    LET n == (off[2] + t[2]) * ssz[1] + (off[1] + t[1])
                    IN  [d EXCEPT ![n] = MergeOp(op, d[n], src[t[2] * ssz[1] + t[1]])],
                  dst, RowMajor(ssz))

MergeAt(dsz, dst, ssz, off, src, op) ==
    IF dsz[1] * dsz[2] > SpanSize(dst) \/ ssz[1] * ssz[2] > SpanSize(src) THEN dst
    ELSE FoldLeft(LAMBDA d, t :
                    LET n == (off[2] + t[2]) * dsz[1] + (off[1] + t[1])
                    IN  [d EXCEPT ![n] = MergeOp(op, d[n], src[t[2] * ssz[1] + t[1]])],
                  dst, RowMajor(ssz))

\* The footprint's cells as a 0-based span.
FpSpan(f) == [k \in 0..(Len(f.cells) - 1) |-> f.cells[k + 1]]

\* An offset whose every write stays inside the destination span: any
\* other is an out-of-bounds write, which the code does not guard.
InSpan(f, off) ==
    \A t \in Range(RowMajor(<<f.w, f.h>>)) :
        (off[2] + t[2]) * Width + off[1] + t[1] \in Cells

-----------------------------------------------------------------------------
Maps == [Cells -> {0, 1}]
Zero == [p \in Cells |-> 0]

Init ==
    /\ tiles \in Maps
    /\ fp \in Footprints
    /\ pos \in Positions
    /\ cspace = Zero
    /\ found = <<-1, -1>>
    /\ merged = [cells |-> Zero, off |-> <<0, 0>>, op |-> "max"]
    /\ step = "convolve"

DoConvolve ==
    /\ step = "convolve"
    /\ cspace' = Convolve(cspace, tiles, fp)
    /\ step' = "nearest"
    /\ UNCHANGED <<tiles, fp, pos, found, merged>>

FindNearest ==
    /\ step = "nearest"
    /\ found' = Nearest(pos, tiles)
    /\ step' = "merge"
    /\ UNCHANGED <<tiles, fp, pos, cspace, merged>>

(* A copy of the configuration space is merged with the map, cell by cell, *)
(* then the footprint is merged into it at an offset, by one merge_op.     *)
DoMerge ==
    /\ step = "merge"
    /\ \E off \in Offsets, op \in Ops :
         /\ InSpan(fp, off)
         /\ merged' = [cells |-> MergeAt(<<Width, Height>>,
                                         Merge(<<Width, Height>>, cspace, tiles, op),
                                         <<fp.w, fp.h>>, off, FpSpan(fp), op),
                        off |-> off, op |-> op]
    /\ step' = "done"
    /\ UNCHANGED <<tiles, fp, pos, cspace, found>>

Next == DoConvolve \/ FindNearest \/ DoMerge

Spec == Init /\ [][Next]_vars

-----------------------------------------------------------------------------
Points == (0..(Width - 1)) \X (0..(Height - 1))
Sq(n) == n * n

TypeOK ==
    /\ tiles \in Maps
    /\ cspace \in [Cells -> {0, 1}]
    /\ found \in Points \cup {<<-1, -1>>}
    /\ merged.cells \in [Cells -> {0, 1}]
    /\ step \in {"convolve", "nearest", "merge", "done"}

(* trace_line, as sight, draws a digital line and stops at the first      *)
(* wall: it visits one cell per step of the major axis starting from one  *)
(* end, every cell lies within half a cell of the true segment on the     *)
(* minor axis (the error term d of the loop is kept in [0, dx)), and the  *)
(* line is clear exactly when it reaches the other end, every cell on it  *)
(* walkable; otherwise its last cell is the wall that blocked it.  The    *)
(* map never changes, so this is checked in the first step only.         *)
TraceIsLine ==
    step = "convolve" => \A a, b \in Points :
        LET t == TraceLine(tiles, a, b)
            pts == t.pts
            dx == Abs(a[1] - b[1])
            dy == Abs(a[2] - b[2])
            maj == IF dx > dy THEN 1 ELSE 2
            mnr == 3 - maj
            D == IF dx > dy THEN dx ELSE dy
            free(q) == Available(tiles[Idx(q[1], q[2])])
        IN  /\ Len(pts) >= 1 /\ Len(pts) <= D + 1
            /\ pts[1] \in {a, b}
            /\ \A k \in 1..(Len(pts) - 1) :
                  /\ Abs(pts[k + 1][maj] - pts[k][maj]) = 1
                  /\ free(pts[k])
            /\ \A k \in 1..Len(pts) :
                  2 * Abs((pts[k][mnr] - a[mnr]) * (b[maj] - a[maj])
                          - (pts[k][maj] - a[maj]) * (b[mnr] - a[mnr])) <= D
            /\ t.ok <=> (Len(pts) = D + 1 /\ free(pts[Len(pts)]))
            /\ t.ok => {pts[1], pts[Len(pts)]} = {a, b}

(* convolve marks exactly the cells a copy of the footprint, centered on   *)
(* some cell > 0 of the source, covers: the clipping arithmetic of x0, x1, *)
(* y0, y1 never lets a stamp wrap into the next row or drop a cell.       *)
ConvolveIsDilation ==
    step # "convolve" =>
        \A p \in Cells :
            (cspace[p] = 1) <=>
                \E q \in Cells, x \in 0..(fp.w - 1), y \in 0..(fp.h - 1) :
                    /\ tiles[q] > 0
                    /\ fp.cells[y * fp.w + x + 1] > 0
                    /\ X(p) = X(q) - fp.cx + x
                    /\ Y(p) = Y(q) - fp.cy + y

(* neighbors4 and neighbors8 link a cell only to an available cell that   *)
(* touches it on the map, across a side or (neighbors8, n >= 4) a corner:  *)
(* index arithmetic position +- 1 never wraps to the other end of a row   *)
(* (checked in the first step, as the map never changes).                 *)
NeighborsAdjacent ==
    step = "convolve" => \A p \in Cells, n \in 0..8 :
        \A l \in {Neighbors8(tiles, p, n), Neighbors4(tiles, p, n)} :
            l.node \in Cells =>
                /\ Available(tiles[l.node])
                /\ Abs(X(l.node) - X(p)) <= 1 /\ Abs(Y(l.node) - Y(p)) <= 1
                /\ l.diag = (X(l.node) # X(p) /\ Y(l.node) # Y(p))
                /\ l.node # p

\* The footprint's rectangle at off lies inside the map.
Fits(f, off) ==
    off[1] >= 0 /\ off[2] >= 0 /\ off[1] + f.w <= Width /\ off[2] + f.h <= Height

(* merge then the placed merge: each cell is merge_op of the copy and the  *)
(* map, and a cell the footprint's rectangle covers at the offset is then  *)
(* merge_op of that and the footprint's own cell at the same relative     *)
(* place; the index arithmetic of the placed merge strides dst by its own  *)
(* width.  (An offset that does not fit wraps into the next row: the code *)
(* does not check it, and it is left out here.)                          *)
MergeIsPlacement ==
    (step = "done" /\ Fits(fp, merged.off)) =>
        \A p \in Cells :
            LET x == X(p) - merged.off[1]
                y == Y(p) - merged.off[2]
                base == MergeOp(merged.op, cspace[p], tiles[p])
            IN  merged.cells[p] =
                  IF x \in 0..(fp.w - 1) /\ y \in 0..(fp.h - 1)
                  THEN MergeOp(merged.op, base, fp.cells[y * fp.w + x + 1])
                  ELSE base

(* nearest returns the cell nearest to the clamped position that meets the *)
(* condition, whenever the map has one.                                   *)
NearestIsNearest ==
    LET c == << Clamp(pos[1], Width - 1), Clamp(pos[2], Height - 1) >>
        D2(q) == Sq(q[1] - c[1]) + Sq(q[2] - c[2])
        free == {q \in Points : Available(tiles[Idx(q[1], q[2])])}
    IN  (step \in {"merge", "done"} /\ free # {}) =>
            /\ found \in free
            /\ \A q \in free : D2(found) <= D2(q)

=============================================================================
