SPECIFICATION Spec
CONSTANTS
  Page = {p1, p2, p3}
  Holder = {h1, h2, h3}
  Thread = {t1, t2}
  NoPage = NoPage
INVARIANTS RefcntExact FreeIffUnreferenced
