SPECIFICATION Spec
CONSTANTS
  Buttons = {"BUTTON_2"}
  ClockSize = 8
  Debounce = 1
  LongPress = 2
  QueueCapacity = 2

PROPERTY LongMeansHeld
