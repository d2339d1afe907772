---------------------------- MODULE DiagramLayout ----------------------------
(***************************************************************************)
(* The layered layout of diagrams (canvas-engine/src/diagram/layout.ts):   *)
(* what "tidy layout", the Mermaid import and the diagrams of the AI share. *)
(***************************************************************************)
EXTENDS ShapeGeometry

SumSeq(s) == FoldLeft(LAMBDA sum, n : sum + n, 0, s)

LayerGap == 100 * Px
NodeGap == 56 * Px
OrderingSweeps == 4

----------------------------------------------------------------------------
(* Cycle removal: depth first, an edge into the path being walked is left  *)
(* out.  mark: 0 not seen, 1 on the path, 2 done; out, dag: successors.    *)
RECURSIVE Visit(_, _)
Visit(walk, id) ==
  LET Follow(w, next) ==
        IF w.mark[next] = 1 THEN w
        ELSE LET kept == [w EXCEPT !.dag[id] = Append(@, next)]
             IN  IF w.mark[next] = 0 THEN Visit(kept, next) ELSE kept
      walked == FoldLeft(Follow, [walk EXCEPT !.mark[id] = 1], walk.out[id])
  IN  [walked EXCEPT !.mark[id] = 2]

\* the edges to other nodes
Successors(ids, edges) ==
  [id \in ToSet(ids) |->
     LET mine == SelectSeq(edges, LAMBDA e : e[1] = id /\ e[2] # id)
     IN  [i \in DOMAIN mine |-> mine[i][2]]]

Acyclic(ids, edges) ==
  LET out == Successors(ids, SelectSeq(edges, LAMBDA e : {e[1], e[2]} \subseteq ToSet(ids)))
      nothing == [id \in ToSet(ids) |-> <<>>]
      From(w, id) == IF w.mark[id] = 0 THEN Visit(w, id) ELSE w
  IN  FoldLeft(From, [mark |-> [id \in ToSet(ids) |-> 0], out |-> out, dag |-> nothing],
               ids).dag

----------------------------------------------------------------------------
(* The longest path to every node, in the order in which its last          *)
(* predecessor is done.                                                    *)
RECURSIVE RankFrom(_, _, _, _, _)
RankFrom(ids, dag, queue, indegree, rank) ==
  IF queue = <<>> THEN rank
  ELSE LET id == Head(queue)
           Count(t) == Cardinality({i \in DOMAIN dag[id] : dag[id][i] = t})
           left == Table(DOMAIN rank, LAMBDA t : indegree[t] - Count(t))
           free == SelectSeq(ids, LAMBDA t : Count(t) > 0 /\ left[t] = 0)
       IN  RankFrom(ids, dag, Tail(queue) \o free, left,
                    Table(DOMAIN rank, LAMBDA t :
                       IF Count(t) = 0 THEN rank[t] ELSE Larger(rank[t], rank[id] + 1)))

Ranks(ids, dag) ==
  LET Into(s, t) == Cardinality({i \in DOMAIN dag[s] : dag[s][i] = t})
      indegree == [t \in ToSet(ids) |->
                     SumSeq([k \in DOMAIN ids |-> Into(ids[k], t)])]
  IN  RankFrom(ids, dag, SelectSeq(ids, LAMBDA id : indegree[id] = 0), indegree,
               [t \in ToSet(ids) |-> 0])

----------------------------------------------------------------------------
(* The order inside a layer: by the mean place of the neighbours in the    *)
(* other layers, those without neighbours keep their own.                  *)
Place(layers, id) ==
  LET layer == layers[CHOOSE r \in DOMAIN layers : id \in ToSet(layers[r])]
  IN  CHOOSE i \in DOMAIN layer : layer[i] = id

\* the mean as a fraction <<sum, count>>
Score(layers, neighbours, id) ==
  LET linked == neighbours[id]
  IN  IF linked = <<>> THEN <<Place(layers, id), 1>>
      ELSE <<SumSeq([i \in DOMAIN linked |-> Place(layers, linked[i])]), Len(linked)>>

SortLayer(layers, r, neighbours) ==
  LET Before(a, b) ==
        LET s == Score(layers, neighbours, a)
            t == Score(layers, neighbours, b)
        IN  \/ s[1] * t[2] < t[1] * s[2]
            \/ s[1] * t[2] = t[1] * s[2] /\ Place(layers, a) < Place(layers, b)
  IN  [layers EXCEPT ![r] = SortSeq(@, Before)]

Ordered(ids, layers, dag) ==
  LET inbound == [t \in ToSet(ids) |->
        FlattenSeq([k \in DOMAIN ids |->
          LET hits == SelectSeq(dag[ids[k]], LAMBDA x : x = t)
          IN  [i \in DOMAIN hits |-> ids[k]]])]
      Down(ls) == FoldLeft(LAMBDA l, r : SortLayer(l, r, inbound), ls,
                           [k \in 1..(Len(ls) - 1) |-> k + 1])
      Up(ls) == FoldLeft(LAMBDA l, r : SortLayer(l, r, dag), ls,
                         [k \in 1..(Len(ls) - 1) |-> Len(ls) - k])
  IN  FoldLeft(LAMBDA ls, n : Up(Down(ls)), layers, [n \in 1..OrderingSweeps |-> n])

----------------------------------------------------------------------------
(* Coordinates: a layer is spread around 0 across, and as deep as its      *)
(* deepest node, in whose middle the others lie.                           *)
\* (Changed form: the next node starts where this one ends.)
SpreadTouching(layer, size, id) ==
  LET before == SelectSeq(layer, LAMBDA n : Place(<<layer>>, n) < Place(<<layer>>, id))
      Total(ids) == SumSeq([i \in DOMAIN ids |-> size[ids[i]].across])
  IN  Total(before) - Half(Total(layer))

Spread(layer, size, id) ==
  LET before == SelectSeq(layer, LAMBDA n : Place(<<layer>>, n) < Place(<<layer>>, id))
      Total(ids) == SumSeq([i \in DOMAIN ids |-> size[ids[i]].across])
  IN  Total(before) + NodeGap * Len(before)
        - Half(Total(layer) + NodeGap * (Len(layer) - 1))

Layers(ids, rank, dag) ==
  Ordered(ids, Table(1..(MaxOf({rank[id] : id \in ToSet(ids)}) + 1), LAMBDA r :
                 SelectSeq(ids, LAMBDA id : rank[id] = r - 1)), dag)

\* size: what the nodes take across the layers and along them
Placed(down, size, rank, layers) ==
  LET deepest == Each(layers, LAMBDA layer : MaxOf({size[id].along : id \in ToSet(layer)}))
      Above(r) == SumSeq([k \in 1..r |-> deepest[k] + LayerGap])
      Position(id) ==
        LET across == Spread(layers[rank[id] + 1], size, id)
            along == Above(rank[id]) + Half(deepest[rank[id] + 1] - size[id].along)
        IN  [x |-> IF down THEN across ELSE along,
             y |-> IF down THEN along ELSE across,
             rank |-> rank[id]]
  IN  Table(DOMAIN rank, Position)

\* the layout of the nodes ids, with the edges dag to later layers
LayoutAlong(down, ids, size, rank, dag) == Placed(down, size, rank, Layers(ids, rank, dag))

LayoutRanked(down, ids, size, dag) == LayoutAlong(down, ids, size, Ranks(ids, dag), dag)

\* nodes: a sequence of [id, w, h]; edges: a sequence of <<from, to>>;
\* the result: [x, y, rank] of every node
LayoutLayered(nodes, edges, direction) ==
  LET ids == Each(nodes, LAMBDA n : n.id)
      down == direction = "TD"
      Size(id) ==
        LET n == nodes[CHOOSE i \in DOMAIN nodes : nodes[i].id = id]
        IN  [across |-> IF down THEN n.w ELSE n.h, along |-> IF down THEN n.h ELSE n.w]
  IN  LayoutRanked(down, ids, Table(ToSet(ids), Size), Acyclic(ids, edges))
=============================================================================
