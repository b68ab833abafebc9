------------------------------- MODULE Matrices -------------------------------
(***************************************************************************)
(* viff/matrix.py: matrices over the fields of module Fields, as sequences  *)
(* of rows.  Rows and columns are counted from 1 here, from 0 in the code.  *)
(***************************************************************************)
EXTENDS Fields

Rows(M) == DOMAIN M
Columns(M) == DOMAIN M[1]

\* Addition and multiplication of all entries with one element.
AddElement(f, M, x) == [i \in Rows(M) |-> [j \in Columns(M) |-> Add(f, M[i][j], x)]]
Scale(f, M, x) == [i \in Rows(M) |-> [j \in Columns(M) |-> Mul(f, M[i][j], x)]]

AddMatrix(f, M, N) ==
    [i \in Rows(M) |-> [j \in Columns(M) |-> Add(f, M[i][j], N[i][j])]]

\* Only defined if Columns(M) = Rows(N): the code raises a ValueError.
MulMatrix(f, M, N) ==
    [i \in Rows(M) |-> [j \in Columns(N) |->
        FieldSum(f, [k \in Columns(M) |-> Mul(f, M[i][k], N[k][j])])]]

Transpose(M) == [j \in Columns(M) |-> [i \in Rows(M) |-> M[i][j]]]

\* The matrix without row k and the first column.
Minor(M, k) ==
    [i \in 1 .. Len(M) - 1 |->
        [j \in 1 .. Len(M) - 1 |-> M[IF i < k THEN i ELSE i + 1][j + 1]]]

Sign(k) == IF k % 2 = 1 THEN 1 ELSE -1

\* Expansion along the first column.  Over GF(2^8) the entries are multiplied
\* with the integer -1, which the tables of field.py take for 255.
Determinant(f, matrix) ==
    LET det[M \in Seq(Seq(Elements(f)))] ==
            CASE Len(M) = 1 -> M[1][1]
              [] Len(M) = 2 -> Sub(f, Mul(f, M[1][1], M[2][2]), Mul(f, M[2][1], M[1][2]))
              [] OTHER ->
                    FieldSum(f, [k \in Rows(M) |->
                        Mul(f, Mul(f, M[k][1], Sign(k)), det[Minor(M, k)])])
    IN  det[matrix]

\* hyper(n, field).  The differences are taken of integers, over GF(2^8) too.
Hyper(n, f) ==
    LET quotient(i, j, k) == Div(f, ToField(f, n + i - k), ToField(f, j - k))
    IN  [i \in 1 .. n |-> [j \in 1 .. n |->
            FieldProduct(f, [k \in 1 .. n |-> IF k = j THEN 1 ELSE quotient(i, j, k)])]]
==============================================================================
