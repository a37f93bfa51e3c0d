\* Two members and two reviewed deals over two months, with promotions, new
\* rows and reviews in the middle of a batch, one crash, failing units of work
\* and batches that run out of time.
SPECIFICATION Spec
CONSTANTS
  Members = {u1, u2}
  Seller = u1
  Deals = {d1, d2}
  Reviewee <- MCReviewee
  Ratings = {4, 5}
  Records <- MCRecords
  NoRow = NoRow
  MaxMonths = 2
  MaxCrashes = 1
INVARIANTS TypeOK EvaluatedOnce NobodyIsWarned
