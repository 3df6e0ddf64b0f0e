SPECIFICATION Spec
CONSTANTS
  t1 = t1  t2 = t2  t3 = t3  t4 = t4  t5 = t5
  n1 = n1  n2 = n2  n3 = n3  i1 = i1  i2 = i2
  NoTx = NoTx
  Txs = {t1, t2, t3, t4, t5}
  Nullifiers = {n1, n2, n3}
  SpendsOf <- Spending
  Acceptable = {t1, t2, t3, t4}
  Inserters = {i1, i2}
  MaxSize = 2
SYMMETRY CallerSymmetry
INVARIANTS SizeOverrunBounded UnspentReserved NoOrphanReservation DoubleSpendsRaced
