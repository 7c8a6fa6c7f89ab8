SPECIFICATION FairSpec
CONSTANTS
  sess1 = sess1  sess2 = sess2
  t1 = t1  t2 = t2  t3 = t3  None = None
  Sessions = {sess1, sess2}
  Tasks = {t1, t2, t3}
  Voices = {}
INVARIANTS LiveTasksTracked SequencesContiguous
PROPERTIES BarrierSettles ImplementsBarrier
