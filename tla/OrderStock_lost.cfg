SPECIFICATION Spec
CONSTANTS
    v1 = v1  v2 = v2  p1 = p1
    c1 = c1  c2 = c2  o1 = o1  o2 = o2
    s1 = s1  s2 = s2  s3 = s3
    Variants <- TwoVariants
    Products = {p1}
    ProductOf <- MCProductOf
    Carts = {c1, c2}
    CartItems <- MCCartItems
    NoCart = NoCart
    Orders = {o1, o2}
    Sessions = {s1, s2}
    InitStock <- MCInitMore
    MaxStock = 2
    MaxOps = 0
SYMMETRY Symmetric
INVARIANT NoLostUpdates
